---- MODULE Spec2Model ----
(***************************************************************************)
(* Model of the recording core of neuro-note (src-tauri/src/lib.rs).       *)
(*                                                                         *)
(* Spec      the manual recording path: the commands start_recording,      *)
(*           pause_recording, resume_recording and stop_recording, the     *)
(*           capture thread start_recording spawns and its capture         *)
(*           callbacks, interleaved at the granularity of one lock         *)
(*           acquisition (or channel operation) per step.                  *)
(* SpecTime  the same commands dispatched one at a time, with the          *)
(*           millisecond clock advancing between their steps.              *)
(* SpecVad   the automatic path: arm/disarm/finalize_auto_recording, the   *)
(*           VAD thread and its chunk processor.                           *)
(***************************************************************************)
EXTENDS Integers, Sequences, FiniteSets, TLC

\* ------------------------------------------------------------------ bounds
NumHandlers == 2   \* command handlers that may run concurrently
MaxThreads  == 2   \* capture threads start_recording may spawn in one run
MaxCmds     == 4   \* commands issued in one run
MaxClock    == 2   \* ticks of the millisecond clock in one run
MaxChunks   == 4   \* chunks the VAD stream delivers in one run
MaxWrites   == 2400   \* calls of write_sample on one AudioWriter
MaxFaults   == 1   \* failures of the codec or of the file one AudioWriter meets
MaxOffered == 34         \* chunks the capture callbacks deliver
MaxMsgs == 3             \* items a session takes from the websocket
MaxCtrl == 1             \* items a session takes from its control channel
MaxAudio == 1            \* items a session takes from its audio channel
MaxFinals == 3           \* final tokens given to render_tokens
MaxNonFinals == 2        \* non-final tokens given to render_tokens
MaxSamples == 4          \* samples of a chunk given to to_pcm16_mono_16k
MaxPcmChannels == 3      \* channels of a chunk given to to_pcm16_mono_16k
MaxResampled == 1323     \* samples of a chunk given to the resampling path
MaxAudioMs == 1100       \* audio time one chunk processor is followed for, in ms
MaxWriterChannels == 2   \* channels of an AudioWriter::Mp3
SampleRate  == 8   \* frames per second of the input device
Channels    == 1   \* channels of the input device

H   == 1..NumHandlers
Thr == 1..MaxThreads

\* The channel of the VAD thread, as a value of stop_tx.
VadChan == MaxThreads + 1

VARIABLES
    \* AppState (lib.rs 94-120)
    current_state,        \* RecordingState
    recording_session,    \* Option<RecordingSession>
    is_writing_enabled,   \* bool
    stop_tx,              \* Option<Sender<()>>: 0 = None, else the receiving thread
    done_rx,              \* Option<Receiver<..>>: 0 = None, else the sending thread
    is_voice_detection_mode,
    soniox_tx,            \* Option<Sender<AudioChunk>> present
    \* time and events
    clock,                \* Instant::now(), in ms
    stamp,                \* number of Instant::now() values formatted into a state
    n_state_events,       \* "recording-state-changed" events emitted
    \* command handlers
    issued,               \* commands issued so far
    h_pc, h_read, h_thr, h_rxl,   \* position and locals of each running handler
    h_mut,                \* whether the running call has changed the shared state
    last,                 \* the command that returned last, and its result
    \* capture threads of start_recording
    t_pc, t_writer, t_stream, t_sig, t_done, t_tr,
    \* capture callbacks of each thread's stream
    cb_pc, cb_we, cb_start, cb_wrote, cb_level, cb_offered,   \* reset when the callback ends
    \* active time of the current session, as observed from outside
    g_active, g_completed,
    \* the automatic path: AppState (lib.rs 106-119)
    writer_state,              \* Mutex<Option<AudioWriter>>: "none", "open", "poisoned"
    vad_session_path,          \* Option<PathBuf> present
    voice_currently_detected,  \* bool
    \* the VAD thread of arm_auto_recording and its chunk processor
    v_pc, v_sig,               \* position; what its rx.recv() will find
    v_par,                     \* the arguments of the arm that spawned it
    vad,                       \* the locals process_chunk captures
    captured, chunks,          \* samples and chunks delivered so far
    v_written,                 \* samples written to the session file, in order
    v_wrote,                   \* whether the last chunk wrote to the file
    n_seg_start, n_threshold,  \* "vad-segment-start", "vad-threshold" events emitted
    \* the detected run and the open segment, as observed from outside
    g_run, g_sil, g_open,
    g_since,                   \* audio since the last segment ended, in ms; -1 if none has
    g_thr_changes,             \* changes of threshold_eff in the running VAD thread
    g_thr_events,              \* vad-threshold events of the running VAD thread
    \* an AudioWriter::Mp3 on its own (audio.rs)
    aw,                        \* the writer: whether it exists, channels, buffer
    w_calls,                   \* calls of write_sample so far
    w_enc, w_left, w_right,    \* encode invocations so far; the buffers of the last one
    w_frames,                  \* encode outputs written to the file so far
    w_codec_faults, w_io_faults,   \* failures of the codec and of the file so far
    w_last,                    \* what the last call did
    \* the session writers of the automatic path, as observed from outside
    g_writers,                 \* writers created so far; the last is the one in writer_state
    g_fin,                     \* the writers whose finalize has begun, in order
    \* the audio-to-transcription channel of the running session (soniox.rs)
    sx_chan,                   \* the chunks it holds, oldest first
    sx_offered,                \* chunks the capture callbacks delivered so far
    sx_sent,                   \* chunks whose frame was sent to the service, in order
    sx_loop,                   \* the session loop: "none", "running", "ended"
    sx_last,                   \* what became of the last chunk, or of the last command
    sx_eoa,                    \* empty text frames (end of audio) sent to the service
    \* the session loop of start_session and what it emits (soniox.rs 114-232)
    final_tokens,              \* the final tokens accumulated
    last_emitted_text,         \* the text of the last transcript event
    suppress_repeat,           \* Option<String>: the text not to repeat after a clear
    se_loop,                   \* "none", "running", "ended"
    se_in,                     \* what the last iteration of the loop was given
    se_events,                 \* the events the last iteration emitted, in order
    se_frames,                 \* the frames the last iteration sent, in order
    se_inbox,                  \* the token lists received since the last clear, in order
    se_cleared,                \* whether a clear-transcript command was processed
    se_held,                   \* outputs withheld since the last clear
    se_rendered,               \* renderings since the last clear
    n_msgs, n_ctrl, n_audio,   \* inbound items, commands and chunks taken so far
    n_events, n_errors, n_ended,   \* events, error events, "ended" events emitted so far
    \* a call of a pure function: which, its arguments, its result
    p_op, p_in, p_out,
    \* a chunk processor on its own (lib.rs 669-804)
    k_dev,                     \* the input configuration and the size of its chunks
    k_par,                     \* the arguments of the arm
    k_level,                   \* the level of the samples the device delivers
    k_vad,                     \* the locals process_chunk captures
    k_seen                     \* samples processed so far

appVars == <<current_state, recording_session, is_writing_enabled, stop_tx, done_rx,
             is_voice_detection_mode, soniox_tx>>
envVars == <<clock, stamp, n_state_events>>
hVars   == <<issued, h_pc, h_read, h_thr, h_rxl, h_mut, last>>
tVars   == <<t_pc, t_writer, t_stream, t_sig, t_done, t_tr>>
cbVars  == <<cb_pc, cb_we, cb_start, cb_wrote, cb_level, cb_offered>>
gVars   == <<g_active, g_completed>>
vadVars == <<writer_state, vad_session_path, voice_currently_detected, v_pc, v_par, vad,
             captured, chunks, v_written, v_wrote, n_seg_start, n_threshold,
             g_run, g_sil, g_open, g_since, g_thr_changes, g_thr_events>>
wVars   == <<aw, w_calls, w_enc, w_left, w_right, w_frames, w_codec_faults, w_io_faults,
             w_last>>
fVars   == <<g_writers, g_fin>>
sVars   == <<sx_chan, sx_offered, sx_sent, sx_loop, sx_last, sx_eoa>>
eVars   == <<final_tokens, last_emitted_text, suppress_repeat, se_loop, se_in, se_events,
             se_frames, se_inbox, se_cleared, se_held, se_rendered, n_msgs, n_ctrl, n_audio,
             n_events, n_errors, n_ended>>
pVars   == <<p_op, p_in, p_out>>
kVars   == <<k_dev, k_par, k_level, k_vad, k_seen>>
yVars   == <<eVars, pVars, kVars>>
xVars   == <<wVars, fVars, sVars, yVars>>
vars    == <<appVars, envVars, hVars, tVars, cbVars, gVars, vadVars, v_sig, xVars>>

\* What a rejected command must leave alone.
Shared == <<current_state, recording_session, is_writing_enabled, stop_tx, done_rx>>

\* ------------------------------------------------------- RecordingState
Plain(type)      == [type |-> type, time |-> 0, elapsed_ms |-> 0]
IdleState        == Plain("Idle")
RecordingAt(s)   == [type |-> "Recording", time |-> s, elapsed_ms |-> 0]
PausedAt(s, e)   == [type |-> "Paused", time |-> s, elapsed_ms |-> e]

NoSession        == [present |-> FALSE, start_time |-> 0, total_elapsed |-> 0]
NewSession(now)  == [present |-> TRUE, start_time |-> now, total_elapsed |-> 0]

\* transition_state without the validation of the expected source state.
TransitionState_NoCheck(cur, from, toType, sess, now, st) ==
    IF toType = "Recording"
    THEN [err |-> "ok", state |-> RecordingAt(st), emit |-> 1]
    ELSE IF toType = "Paused"
    THEN IF sess.present
         THEN [err |-> "ok",
               state |-> PausedAt(st, (now - sess.start_time) + sess.total_elapsed),
               emit |-> 1]
         ELSE [err |-> "no_session", state |-> cur, emit |-> 0]
    ELSE [err |-> "ok", state |-> Plain(toType), emit |-> 1]

\* AppState::transition_state: the result, the new state and the events emitted.
TransitionState(cur, from, toType, sess, now, st) ==
    IF cur # from
    THEN [err |-> "invalid", state |-> cur, emit |-> 0]
    ELSE IF toType = "Recording"
    THEN [err |-> "ok", state |-> RecordingAt(st), emit |-> 1]
    ELSE IF toType = "Paused"
    THEN IF sess.present
         THEN [err |-> "ok",
               state |-> PausedAt(st, (now - sess.start_time) + sess.total_elapsed),
               emit |-> 1]
         ELSE [err |-> "no_session", state |-> cur, emit |-> 0]
    ELSE [err |-> "ok", state |-> Plain(toType), emit |-> 1]

\* The stamp a transition consumes: Recording and Paused format Instant::now().
NextStamp(r) == IF r.err = "ok" /\ r.state.type \in {"Recording", "Paused"}
                THEN stamp + 1 ELSE stamp

\* start_recording accepting any state.
StartAccepted_Always(s) == TRUE

\* start_recording's check of the current state.
StartAccepted(s) == s = IdleState

\* ----------------------------------------- the automatic path (557-902)
\* Levels (rms, peak, smoothed, thresholds) are fixed-point, in units of 1/10000
\* of full scale; the products and quotients of the code's floats are truncated
\* to that unit.
CooldownMsDefault  == 500    \* cooldown_ms_default
CalibMs            == 1000   \* the initial calib_left_ms
ThresholdDefault   == 300    \* 0.03
MinSpeechMsDefault == 300
SilenceMsDefault   == 800
PreRollMsDefault   == 250
DynThrFloor        == 100    \* 0.01

\* The arguments arm_auto_recording is called with.
ArmArgs ==
    { [threshold |-> ThresholdDefault, min_speech_ms |-> MinSpeechMsDefault,
       silence_ms |-> SilenceMsDefault, pre_roll_ms |-> PreRollMsDefault] }

\* The chunks the input stream delivers: frames per chunk, and the level of the
\* chunk's samples (silence; speech; a click of low energy and high peak).
ChunkFrames == {2, 4}
Levels == { [rms |-> 0, peak |-> 0], [rms |-> 5000, peak |-> 8000],
            [rms |-> 100, peak |-> 1000] }

Min(a, b) == IF a < b THEN a ELSE b
Max(a, b) == IF a > b THEN a ELSE b

\* The locals of a VAD thread before its first chunk (lib.rs 607, 652-667).
VadLocals(par) ==
    [ smoothed |-> 0, above_ms |-> 0, below_ms |-> 0, cooldown_left_ms |-> 0,
      is_recording_voice |-> FALSE, threshold_eff |-> par.threshold,
      calib_left_ms |-> CalibMs, noise_energy_accum |-> 0, noise_time_accum_ms |-> 0,
      noise_peak_max |-> 0, prebuf |-> <<>> ]

\* lib.rs 604-606 for a device of the given rate and channels.
PreRollCapacityAt(pre_roll_ms, rate, channels) == ((pre_roll_ms * rate) \div 1000) * channels

\* lib.rs 606.
PreRollCapacity(par) == PreRollCapacityAt(par.pre_roll_ms, SampleRate, Channels)

\* lib.rs 688 for a device of the given rate and channels, as the u32 every
\* use of chunk_ms casts it to.
ChunkMsAt(len, rate, channels) == ((len \div channels) * 1000) \div rate

\* lib.rs 688, as the u32 every use of chunk_ms casts it to.
ChunkMs(len) == ChunkMsAt(len, SampleRate, Channels)

\* No input configuration yet.
NoDevice == [rate |-> 0, channels |-> 0, frames |-> 0]

\* lib.rs 708-711: one sample enters the pre-roll buffer.
PushPre(buf, s, cap) ==
    Append(IF Len(buf) >= cap /\ buf # <<>> THEN Tail(buf) ELSE buf, s)

RECURSIVE PushAll(_, _, _)
PushAll(buf, ss, cap) ==
    IF ss = <<>> THEN buf ELSE PushAll(PushPre(buf, Head(ss), cap), Tail(ss), cap)

\* A calibration that goes on deriving the threshold after its window closed.
Calibrate_NoWindow(v, rms, peak, cms) ==
    LET used   == Min(v.calib_left_ms, cms)
        energy == v.noise_energy_accum + rms * used
        time   == v.noise_time_accum_ms + used
        left   == Max(0, v.calib_left_ms - cms)
        pmax   == Max(v.noise_peak_max, peak)
        done   == left = 0 /\ time > 0
        dyn    == Max(Max((energy \div Max(time, 1)) * 6, (pmax * 6) \div 10),
                      DynThrFloor)
    IN [ v EXCEPT !.noise_energy_accum = energy, !.noise_time_accum_ms = time,
                  !.calib_left_ms = left, !.noise_peak_max = pmax,
                  !.threshold_eff = IF done THEN Max(@, dyn) ELSE @ ]

\* lib.rs 691-704: the calibration of the effective threshold.
Calibrate(v, rms, peak, cms) ==
    IF v.calib_left_ms > 0
    THEN LET used   == Min(v.calib_left_ms, cms)
             energy == v.noise_energy_accum + rms * used
             time   == v.noise_time_accum_ms + used
             left   == Max(0, v.calib_left_ms - cms)
             pmax   == Max(v.noise_peak_max, peak)
             done   == left = 0 /\ time > 0
             dyn    == Max(Max((energy \div Max(time, 1)) * 6, (pmax * 6) \div 10),
                           DynThrFloor)
         IN [ v EXCEPT !.noise_energy_accum = energy, !.noise_time_accum_ms = time,
                       !.calib_left_ms = left, !.noise_peak_max = pmax,
                       !.threshold_eff = IF done THEN Max(@, dyn) ELSE @ ]
    ELSE v

\* A detection that ignores the cooldown.
VoiceDetected_NoCooldown(cooldown, smoothed, peak, thr) ==
    smoothed > thr \/ peak * 10 > thr * 8

\* lib.rs 724.
VoiceDetected(cooldown, smoothed, peak, thr) ==
    cooldown = 0 /\ (smoothed > thr \/ peak * 10 > thr * 8)

\* A segment start that ignores whether a segment is already being recorded.
SegmentStarts_IgnoreRecording(above, min_speech, is_rec) == above >= min_speech

\* lib.rs 744.
SegmentStarts(above, min_speech, is_rec) == above >= min_speech /\ ~is_rec

\* A segment start that writes the live chunk before the pre-roll.
StartWrites_LiveFirst(prebuf, samples) == samples \o prebuf

\* lib.rs 751-762: what the chunk that starts a segment hands to the writer.
StartWrites(prebuf, samples) == prebuf \o samples

\* process_chunk (lib.rs 669-804): the locals after the chunk, whether
\* vad-threshold and vad-segment-start were emitted, whether the segment ended,
\* and the samples handed to the writer, in order.
ProcessChunkWith(v, par, samples, rms, peak, cms, capacity) ==
    LET v1   == [v EXCEPT !.smoothed = (9 * @ + rms) \div 10]
        v2   == Calibrate(v1, rms, peak, cms)
        v3   == [v2 EXCEPT !.prebuf = PushAll(@, samples, capacity),
                           !.cooldown_left_ms = IF @ > 0 THEN Max(0, @ - cms) ELSE @]
        det  == VoiceDetected(v3.cooldown_left_ms, v3.smoothed, peak, v3.threshold_eff)
        abv  == v3.above_ms + cms
        strt == det /\ SegmentStarts(abv, par.min_speech_ms, v3.is_recording_voice)
        rec  == v3.is_recording_voice \/ strt
        blw  == v3.below_ms + cms
        stp  == ~det /\ v3.is_recording_voice /\ blw >= par.silence_ms
    IN [ vad |->
            IF det
            THEN [v3 EXCEPT !.above_ms = abv, !.is_recording_voice = rec, !.below_ms = 0]
            ELSE IF v3.is_recording_voice
            THEN IF stp
                 THEN [v3 EXCEPT !.above_ms = 0, !.is_recording_voice = FALSE,
                                 !.below_ms = 0, !.cooldown_left_ms = CooldownMsDefault]
                 ELSE [v3 EXCEPT !.above_ms = 0, !.below_ms = blw]
            ELSE [v3 EXCEPT !.above_ms = 0],
         threshold |-> v.calib_left_ms > 0 /\ v2.calib_left_ms = 0
                          /\ v2.noise_time_accum_ms > 0,
         detected |-> det,
         start |-> strt,
         stop |-> stp,
         writes |-> IF det
                    THEN IF strt THEN StartWrites(v3.prebuf, samples)
                         ELSE IF rec THEN samples ELSE <<>>
                    ELSE IF v3.is_recording_voice THEN samples ELSE <<>> ]

\* process_chunk of a thread whose device has the rate and channels of the model.
ProcessChunk(v, par, samples, rms, peak) ==
    ProcessChunkWith(v, par, samples, rms, peak, ChunkMs(Len(samples)),
                     PreRollCapacity(par))

\* ------------------------------------------------- AudioWriter (audio.rs)
SamplesPerFrame == 1152

\* No AudioWriter yet, and one as lib.rs 634 constructs it.
NoWriter == [state |-> "none", channels |-> 0, buffer |-> <<>>]
NewWriter(c) == [state |-> "open", channels |-> c, buffer |-> <<>>]

\* What a call did: the encodes it invoked and what came of the last, whether
\* and when it invoked the codec flush, whether it flushed the file, its result.
NoCall ==
    [ op |-> "none", encodes |-> 0, outcome |-> "none", codec_flush |-> 0,
      flush_after_encode |-> FALSE, flush_outcome |-> "none",
      tail_written |-> FALSE, file_flush |-> FALSE, ret |-> "none" ]

\* What an encode, or a codec flush, followed by the write of its output comes
\* to: bytes written, no bytes to write, a codec error, a failed write_all.
Outcomes == {"bytes", "zero", "codec_err", "io_err"}
Faults(o) == IF o \in {"codec_err", "io_err"} THEN 1 ELSE 0

\* A right channel that drops the odd trailing sample instead of padding.
SplitRight_NoPad(buf, c) ==
    IF c = 1 THEN buf ELSE [i \in 1..(Len(buf) \div 2) |-> buf[2 * i]]

\* audio.rs 41-58: the buffers flush_mp3_buffer hands to the encoder.
SplitLeft(buf, c) ==
    IF c = 1 THEN buf ELSE [i \in 1..((Len(buf) + 1) \div 2) |-> buf[2 * i - 1]]

SplitRight(buf, c) ==
    IF c = 1 THEN buf
    ELSE [i \in 1..((Len(buf) + 1) \div 2) |-> IF 2 * i <= Len(buf) THEN buf[2 * i] ELSE 0]

\* A flush_mp3_buffer that keeps the frame whose encode failed.
FlushMp3Buffer_KeepFailed(buf, c, o) ==
    IF buf = <<>>
    THEN [buffer |-> buf, encoded |-> FALSE, wrote |-> FALSE, ret |-> "ok"]
    ELSE [buffer |-> IF o \in {"io_err", "codec_err"} THEN buf ELSE <<>>,
          encoded |-> TRUE,
          wrote |-> o = "bytes",
          ret |-> IF o = "io_err" THEN "err" ELSE "ok"]

\* The two channel buffers flush_mp3_buffer hands to encode (audio.rs 41-60).
EncodeArgs(buf, c) == [left |-> SplitLeft(buf, c), right |-> SplitRight(buf, c)]

\* AudioWriter::flush_mp3_buffer (audio.rs 35-76) with outcome o of its encode:
\* the buffer afterwards, whether it encoded, whether it wrote to the file, and
\* its result. A failed write_all returns before the buffer is cleared.
FlushMp3Buffer(buf, c, o) ==
    IF buf = <<>>
    THEN [buffer |-> buf, encoded |-> FALSE, wrote |-> FALSE, ret |-> "ok"]
    ELSE [buffer |-> IF o = "io_err" THEN buf ELSE <<>>,
          encoded |-> TRUE,
          wrote |-> o = "bytes",
          ret |-> IF o = "io_err" THEN "err" ELSE "ok"]

\* ------------------------------------------- transcript text (soniox.rs)
\* A string is the sequence of its characters. Tag stands for one bracketed
\* tag such as <end> or [NOISE], which the cleaning removes whole.
Tag == "<tag>"
Space == " "
Punctuation == {".", "!", "?", ":", ";", ","}

\* Option<String>: None, or Some of a string.
NoText == [some |-> FALSE, text |-> <<>>]
SomeText(t) == [some |-> TRUE, text |-> t]

\* A token of an inbound message: its text, whether it is final, its speaker
\* if it names one, its language.
Tok(text, final, spk, speaker) ==
    [text |-> text, is_final |-> final, spk |-> spk, speaker |-> speaker, lang |-> "en"]

NotTag(ch) == ch # Tag

\* clean_transcript_text_preserve_spacing (soniox.rs 345-370).
Clean(text) == SelectSeq(text, NotTag)

RECURSIVE TrimStart(_)
TrimStart(t) == IF t # <<>> /\ Head(t) = Space THEN TrimStart(Tail(t)) ELSE t

RECURSIVE TrimEnd(_)
TrimEnd(t) ==
    IF t # <<>> /\ t[Len(t)] = Space THEN TrimEnd(SubSeq(t, 1, Len(t) - 1)) ELSE t

\* str::trim.
Trim(t) == TrimEnd(TrimStart(t))

\* char::to_uppercase on the letters of the model.
Upper(ch) == IF ch = "a" THEN "A" ELSE IF ch = "b" THEN "B" ELSE IF ch = "c" THEN "C" ELSE ch

\* format_transcript_line (soniox.rs 373-399): trimmed, its first letter in
\* upper case, a period added unless it ends in punctuation.
FormatTranscriptLine(text) ==
    LET t == Trim(text)
        c == IF t = <<>> THEN t ELSE <<Upper(Head(t))>> \o Tail(t)
    IN IF t = <<>> THEN <<>>
       ELSE IF c[Len(c)] \in Punctuation THEN c ELSE Append(c, ".")

\* extract_speaker_id (soniox.rs 330-342).
ExtractSpeakerId(tok, fallback) == IF tok.spk THEN tok.speaker ELSE fallback

\* The speakers a token of the model can name, and 0 for none.
Speakers == 0..2

InSeq(x, q) == \E i \in 1..Len(q) : q[i] = x

\* render_tokens before its first token (soniox.rs 243-246).
RenderStart ==
    [order |-> <<>>, text |-> [sp \in Speakers |-> <<>>], lang |-> [sp \in Speakers |-> "?"],
     last |-> 0]

\* One turn of the loop over the final tokens (soniox.rs 248-276).
RenderFinal(acc, tok) ==
    LET raw == Clean(tok.text)
        sp  == ExtractSpeakerId(tok, 0)
    IN IF Trim(raw) = <<>> THEN acc
       ELSE [order |-> IF InSeq(sp, acc.order) THEN acc.order ELSE Append(acc.order, sp),
             text  |-> [acc.text EXCEPT ![sp] = @ \o raw],
             lang  |-> IF InSeq(sp, acc.order) THEN acc.lang
                       ELSE [acc.lang EXCEPT ![sp] = tok.lang],
             last  |-> sp]

\* One turn of the loop over the non-final tokens (soniox.rs 278-296).
RenderNonFinal(acc, tok) ==
    LET clean == Clean(tok.text)
        sp    == ExtractSpeakerId(tok, acc.last)
    IN IF Trim(clean) = <<>> THEN acc
       ELSE [acc EXCEPT !.order = IF InSeq(sp, acc.order) THEN @ ELSE Append(@, sp),
                        !.text[sp] = @ \o clean]

RECURSIVE RenderFinals(_, _)
RenderFinals(acc, toks) ==
    IF toks = <<>> THEN acc ELSE RenderFinals(RenderFinal(acc, Head(toks)), Tail(toks))

RECURSIVE RenderNonFinals(_, _)
RenderNonFinals(acc, toks) ==
    IF toks = <<>> THEN acc
    ELSE RenderNonFinals(RenderNonFinal(acc, Head(toks)), Tail(toks))

\* The label of a speaker's line (soniox.rs 311-315).
Label(sp) ==
    IF sp = 1 THEN "Speaker 1:" ELSE IF sp = 2 THEN "Speaker 2:"
    ELSE IF sp > 0 THEN "Speaker n:" ELSE "Speaker:"

Separator == "==============================="

\* The speakers put in numeric order.
RECURSIVE SpeakerOrder_Numeric(_)
SpeakerOrder_Numeric(order) ==
    IF order = <<>> THEN <<>>
    ELSE LET m == CHOOSE x \in {order[i] : i \in 1..Len(order)} :
                    \A i \in 1..Len(order) : x <= order[i]
             IsNot(y) == y # m
         IN <<m>> \o SpeakerOrder_Numeric(SelectSeq(order, IsNot))

\* The order of the lines: speaker_order as the two loops left it (soniox.rs 300).
SpeakerOrder(order) == order

\* The lines of the output (soniox.rs 300-320), one per speaker with text.
RECURSIVE RenderLines(_, _)
RenderLines(acc, order) ==
    IF order = <<>> THEN <<>>
    ELSE LET sp == Head(order)
             f  == FormatTranscriptLine(acc.text[sp])
         IN (IF f = <<>> THEN <<>>
             ELSE <<[speaker |-> sp, lang |-> acc.lang[sp], text |-> f]>>)
            \o RenderLines(acc, Tail(order))

\* The output string of its lines (soniox.rs 298-327).
RECURSIVE JoinLines(_)
JoinLines(lines) ==
    IF lines = <<>> THEN <<>>
    ELSE <<Label(lines[1].speaker), " [", lines[1].lang, "] ">> \o lines[1].text
         \o (IF Len(lines) = 1 THEN <<"\n", Separator>>
             ELSE <<"\n">> \o JoinLines(Tail(lines)))

\* The tables render_tokens builds from its two lists (soniox.rs 243-296).
RenderTables(finals, non_finals) ==
    RenderNonFinals(RenderFinals(RenderStart, finals), non_finals)

\* render_tokens (soniox.rs 237-328).
RenderTokens(finals, non_finals) ==
    LET acc == RenderTables(finals, non_finals)
    IN JoinLines(RenderLines(acc, SpeakerOrder(acc.order)))

\* An item of the websocket stream, or nothing yet.
NoItem == [kind |-> "none"]

\* ------------------------------------------------------------------ Init
Init ==
    /\ current_state = IdleState
    /\ recording_session = NoSession
    /\ is_writing_enabled = FALSE
    /\ stop_tx = 0
    /\ done_rx = 0
    /\ is_voice_detection_mode = FALSE
    /\ soniox_tx = FALSE
    /\ clock = 0
    /\ stamp = 0
    /\ n_state_events = 0
    /\ issued = 0
    /\ h_pc = [h \in H |-> "idle"]
    /\ h_read = [h \in H |-> IdleState]
    /\ h_thr = [h \in H |-> 0]
    /\ h_rxl = [h \in H |-> 0]
    /\ h_mut = [h \in H |-> FALSE]
    /\ last = [kind |-> "none", res |-> "none"]
    /\ t_pc = [t \in Thr |-> "free"]
    /\ t_writer = [t \in Thr |-> "none"]
    /\ t_stream = [t \in Thr |-> FALSE]
    /\ t_sig = [t \in Thr |-> "none"]
    /\ t_done = [t \in Thr |-> "none"]
    /\ t_tr = [t \in Thr |-> "none"]
    /\ cb_pc = [t \in Thr |-> "idle"]
    /\ cb_we = [t \in Thr |-> FALSE]
    /\ cb_start = [t \in Thr |-> "none"]
    /\ cb_wrote = [t \in Thr |-> FALSE]
    /\ cb_level = [t \in Thr |-> FALSE]
    /\ cb_offered = [t \in Thr |-> FALSE]
    /\ g_active = 0
    /\ g_completed = 0
    /\ writer_state = "none"
    /\ vad_session_path = FALSE
    /\ voice_currently_detected = FALSE
    /\ v_pc = "free"
    /\ v_sig = "none"
    /\ v_par \in ArmArgs
    /\ vad = VadLocals(v_par)
    /\ captured = 0
    /\ chunks = 0
    /\ v_written = <<>>
    /\ v_wrote = FALSE
    /\ n_seg_start = 0
    /\ n_threshold = 0
    /\ g_run = 0
    /\ g_sil = 0
    /\ g_open = FALSE
    /\ g_since = -1
    /\ g_thr_changes = 0
    /\ g_thr_events = 0
    /\ aw = NoWriter
    /\ w_calls = 0
    /\ w_enc = 0
    /\ w_left = <<>>
    /\ w_right = <<>>
    /\ w_frames = 0
    /\ w_codec_faults = 0
    /\ w_io_faults = 0
    /\ w_last = NoCall
    /\ g_writers = 0
    /\ g_fin = <<>>
    /\ sx_chan = <<>>
    /\ sx_offered = 0
    /\ sx_sent = <<>>
    /\ sx_loop = "none"
    /\ sx_last = "none"
    /\ sx_eoa = 0
    /\ final_tokens = <<>>
    /\ last_emitted_text = <<>>
    /\ suppress_repeat = NoText
    /\ se_loop = "none"
    /\ se_in = NoItem
    /\ se_events = <<>>
    /\ se_frames = <<>>
    /\ se_inbox = <<>>
    /\ se_cleared = FALSE
    /\ se_held = 0
    /\ se_rendered = 0
    /\ n_msgs = 0
    /\ n_ctrl = 0
    /\ n_audio = 0
    /\ n_events = 0
    /\ n_errors = 0
    /\ n_ended = 0
    /\ k_dev = NoDevice
    /\ k_par = [threshold |-> 0, min_speech_ms |-> 0, silence_ms |-> 0, pre_roll_ms |-> 0]
    /\ k_level = [rms |-> 0, peak |-> 0]
    /\ k_vad = VadLocals(k_par)
    /\ k_seen = 0
    /\ p_op = "none"
    /\ p_in = <<>>
    /\ p_out = <<>>

\* --------------------------------------------------------------- helpers
\* A new command takes the lowest idle handler.
CanIssue(h) ==
    /\ h_pc[h] = "idle"
    /\ issued < MaxCmds
    /\ \A g \in H : g < h => h_pc[g] # "idle"

\* Handler h begins a command: it has read `read` and goes on at pc.
Begin(h, read, pc) ==
    /\ issued' = issued + 1
    /\ h_read' = [h_read EXCEPT ![h] = read]
    /\ h_pc' = [h_pc EXCEPT ![h] = pc]
    /\ h_thr' = [h_thr EXCEPT ![h] = 0]
    /\ h_rxl' = [h_rxl EXCEPT ![h] = 0]
    /\ h_mut' = [h_mut EXCEPT ![h] = FALSE]
    /\ UNCHANGED last

\* A command is rejected by its first check: nothing but the result changes.
Reject(k) ==
    /\ issued' = issued + 1
    /\ last' = [kind |-> k, res |-> "rejected"]
    /\ UNCHANGED <<h_pc, h_read, h_thr, h_rxl, h_mut>>

\* Handler h goes on at pc; locals is <<h_thr, h_rxl>> after the step.
Goto(h, pc, thr, rxl) ==
    /\ h_pc' = [h_pc EXCEPT ![h] = pc]
    /\ h_thr' = [h_thr EXCEPT ![h] = thr]
    /\ h_rxl' = [h_rxl EXCEPT ![h] = rxl]
    /\ h_mut' = [h_mut EXCEPT ![h] = @ \/ (Shared' # Shared)]
    /\ UNCHANGED <<issued, h_read, last>>

\* Handler h returns res from command k: its locals are gone.
Return(h, k, res) ==
    /\ h_pc' = [h_pc EXCEPT ![h] = "idle"]
    /\ h_read' = [h_read EXCEPT ![h] = IdleState]
    /\ h_thr' = [h_thr EXCEPT ![h] = 0]
    /\ h_rxl' = [h_rxl EXCEPT ![h] = 0]
    /\ h_mut' = [h_mut EXCEPT ![h] = FALSE]
    /\ last' = [kind |-> k, res |-> res]
    /\ UNCHANGED issued

\* Dropping the Sender held for thread t wakes its rx.recv() with an error.
Dropped(sig, t) ==
    IF t \in Thr /\ sig[t] = "none" THEN [sig EXCEPT ![t] = "dropped"] ELSE sig

\* tx.send(()) on the Sender held for thread t.
Sent(sig, t) == IF t \in Thr THEN [sig EXCEPT ![t] = "sent"] ELSE sig

\* The same two for the channel of the VAD thread.
VadDropped(sig, t) == IF t = VadChan /\ sig = "none" THEN "dropped" ELSE sig
VadSent(sig, t) == IF t = VadChan THEN "sent" ELSE sig

\* ------------------------------------------------- start_recording (338-554)
\* lib.rs 346-349: read the state; anything but Idle is rejected.
StartCheck(h) ==
    /\ CanIssue(h)
    /\ UNCHANGED <<vadVars, v_sig, xVars>>
    /\ StartAccepted(current_state) =>
          Cardinality({t \in Thr : t_pc[t] = "free"}) >
          Cardinality({g \in H : h_pc[g] = "start_spawn"})
    /\ IF StartAccepted(current_state)
       THEN Begin(h, current_state, "start_spawn")
       ELSE Reject("start")
    /\ UNCHANGED <<appVars, envVars, tVars, cbVars, gVars>>

\* lib.rs 352-381: clear the voice-detection mode, create the channels, spawn.
StartSpawn(h) ==
    /\ h_pc[h] = "start_spawn"
    /\ UNCHANGED <<vadVars, v_sig, xVars>>
    /\ is_voice_detection_mode' = FALSE
    /\ UNCHANGED <<current_state, recording_session, is_writing_enabled, stop_tx, done_rx,
                   soniox_tx, envVars, t_writer, t_stream, t_sig, t_done, t_tr,
                   cbVars, gVars>>
    /\ \E t \in Thr :
        /\ t_pc[t] = "free"
        /\ \A u \in Thr : u < t => t_pc[u] # "free"
        /\ t_pc' = [t_pc EXCEPT ![t] = "setup"]
        /\ Goto(h, "start_tx", t, 0)

\* lib.rs 550: store the stop sender; the sender it replaces is dropped.
StartStoreTx(h) ==
    /\ h_pc[h] = "start_tx"
    /\ stop_tx' = h_thr[h]
    /\ t_sig' = Dropped(t_sig, stop_tx)
    /\ v_sig' = VadDropped(v_sig, stop_tx)
    /\ UNCHANGED <<vadVars, xVars>>
    /\ UNCHANGED <<current_state, recording_session, is_writing_enabled, done_rx,
                   is_voice_detection_mode, soniox_tx, envVars,
                   t_pc, t_writer, t_stream, t_done, t_tr, cbVars, gVars>>
    /\ Goto(h, "start_rx", h_thr[h], 0)

\* lib.rs 551-553: store the completion receiver and return Ok.
StartStoreRx(h) ==
    /\ h_pc[h] = "start_rx"
    /\ UNCHANGED <<vadVars, v_sig, xVars>>
    /\ done_rx' = h_thr[h]
    /\ UNCHANGED <<current_state, recording_session, is_writing_enabled, stop_tx,
                   is_voice_detection_mode, soniox_tx, envVars, tVars, cbVars, gVars>>
    /\ Return(h, "start", "ok")

\* ---------------------------------------- the capture thread (381-547)
\* lib.rs 383-477: device, config and writer; any failure is reported and ends the thread.
ThreadSetup(t) ==
    /\ t_pc[t] = "setup"
    /\ UNCHANGED <<vadVars, v_sig, xVars>>
    /\ \E ok \in BOOLEAN :
        IF ok
        THEN /\ t_writer' = [t_writer EXCEPT ![t] = "open"]
             /\ t_pc' = [t_pc EXCEPT ![t] = "session"]
             /\ UNCHANGED t_done
        ELSE /\ t_done' = [t_done EXCEPT ![t] = "err"]
             /\ t_pc' = [t_pc EXCEPT ![t] = "exit"]
             /\ UNCHANGED t_writer
    /\ UNCHANGED <<appVars, envVars, hVars, t_stream, t_sig, t_tr, cbVars, gVars>>

\* lib.rs 480-494: install a fresh RecordingSession.
ThreadSession(t) ==
    /\ t_pc[t] = "session"
    /\ UNCHANGED <<vadVars, v_sig, xVars>>
    /\ recording_session' = NewSession(clock)
    /\ g_active' = 0
    /\ g_completed' = 0
    /\ t_pc' = [t_pc EXCEPT ![t] = "enable"]
    /\ UNCHANGED <<current_state, is_writing_enabled, stop_tx, done_rx,
                   is_voice_detection_mode, soniox_tx, envVars, hVars,
                   t_writer, t_stream, t_sig, t_done, t_tr, cbVars>>

\* lib.rs 497: enable writing.
ThreadEnable(t) ==
    /\ t_pc[t] = "enable"
    /\ UNCHANGED <<vadVars, v_sig, xVars>>
    /\ is_writing_enabled' = TRUE
    /\ t_pc' = [t_pc EXCEPT ![t] = "transition"]
    /\ UNCHANGED <<current_state, recording_session, stop_tx, done_rx,
                   is_voice_detection_mode, soniox_tx, envVars, hVars,
                   t_writer, t_stream, t_sig, t_done, t_tr, cbVars, gVars>>

\* lib.rs 500-507: transition Idle -> Recording; the result is discarded.
ThreadTransition(t) ==
    /\ t_pc[t] = "transition"
    /\ UNCHANGED <<vadVars, v_sig, xVars>>
    /\ LET r == TransitionState(current_state, IdleState, "Recording",
                                recording_session, clock, stamp + 1)
       IN /\ current_state' = r.state
          /\ n_state_events' = n_state_events + r.emit
          /\ stamp' = NextStamp(r)
          /\ t_tr' = [t_tr EXCEPT ![t] = r.err]
    /\ t_pc' = [t_pc EXCEPT ![t] = "stream"]
    /\ UNCHANGED <<recording_session, is_writing_enabled, stop_tx, done_rx,
                   is_voice_detection_mode, soniox_tx, clock, hVars,
                   t_writer, t_stream, t_sig, t_done, cbVars, gVars>>

\* lib.rs 510-530: build and play the input stream; a failure is reported and
\* ends the thread, its writer dropped without finalize.
ThreadStream(t) ==
    /\ t_pc[t] = "stream"
    /\ UNCHANGED <<vadVars, v_sig, xVars>>
    /\ \E ok \in BOOLEAN :
        IF ok
        THEN /\ t_stream' = [t_stream EXCEPT ![t] = TRUE]
             /\ t_pc' = [t_pc EXCEPT ![t] = "wait"]
             /\ UNCHANGED <<t_done, t_writer>>
        ELSE /\ t_done' = [t_done EXCEPT ![t] = "err"]
             /\ t_writer' = [t_writer EXCEPT ![t] = "dropped"]
             /\ t_pc' = [t_pc EXCEPT ![t] = "exit"]
             /\ UNCHANGED t_stream
    /\ t_tr' = [t_tr EXCEPT ![t] = "none"]
    /\ UNCHANGED <<appVars, envVars, hVars, t_sig, cbVars, gVars>>

\* lib.rs 533-546: rx.recv() returns (a stop was sent, or the sender was dropped),
\* the stream is dropped, the writer taken and finalized, the result sent.
ThreadFinalize(t) ==
    /\ t_pc[t] = "wait"
    /\ UNCHANGED <<vadVars, v_sig, xVars>>
    /\ t_sig[t] # "none"
    /\ cb_pc[t] = "idle"
    /\ t_stream' = [t_stream EXCEPT ![t] = FALSE]
    /\ t_writer' = [t_writer EXCEPT ![t] = "finalized"]
    /\ \E ok \in BOOLEAN : t_done' = [t_done EXCEPT ![t] = IF ok THEN "ok" ELSE "err"]
    /\ t_pc' = [t_pc EXCEPT ![t] = "exit"]
    /\ UNCHANGED <<appVars, envVars, hVars, t_sig, t_tr, cbVars, gVars>>

\* ------------------------------------ pause_recording (255-273, 923-928)
\* lib.rs 256-259: read the state; only Recording may be paused.
PauseCheck(h) ==
    /\ CanIssue(h)
    /\ UNCHANGED <<vadVars, v_sig, xVars>>
    /\ IF current_state.type = "Recording"
       THEN Begin(h, current_state, "pause_flag")
       ELSE Reject("pause")
    /\ UNCHANGED <<appVars, envVars, tVars, cbVars, gVars>>

\* lib.rs 261: disable writing.
PauseFlag(h) ==
    /\ h_pc[h] = "pause_flag"
    /\ UNCHANGED <<vadVars, v_sig, xVars>>
    /\ is_writing_enabled' = FALSE
    /\ UNCHANGED <<current_state, recording_session, stop_tx, done_rx,
                   is_voice_detection_mode, soniox_tx, envVars, tVars, cbVars, gVars>>
    /\ Goto(h, "pause_trans", 0, 0)

\* lib.rs 264-269: transition from the state read at entry to Paused.
PauseTrans(h) ==
    /\ h_pc[h] = "pause_trans"
    /\ UNCHANGED <<vadVars, v_sig, xVars>>
    /\ UNCHANGED <<recording_session, is_writing_enabled, stop_tx, done_rx,
                   is_voice_detection_mode, soniox_tx, clock, tVars, cbVars, g_active>>
    /\ LET r == TransitionState(current_state, h_read[h], "Paused",
                                recording_session, clock, stamp + 1)
       IN /\ current_state' = r.state
          /\ n_state_events' = n_state_events + r.emit
          /\ stamp' = NextStamp(r)
          /\ g_completed' = IF r.err = "ok" THEN g_active ELSE g_completed
          /\ Return(h, "pause", r.err)

\* ----------------------------------- resume_recording (275-302, 930-936)
\* lib.rs 276-279: read the state; only Paused may be resumed.
ResumeCheck(h) ==
    /\ CanIssue(h)
    /\ UNCHANGED <<vadVars, v_sig, xVars>>
    /\ IF current_state.type = "Paused"
       THEN Begin(h, current_state, "resume_trans1")
       ELSE Reject("resume")
    /\ UNCHANGED <<appVars, envVars, tVars, cbVars, gVars>>

\* lib.rs 281: transition from the state read at entry to Resuming.
ResumeTrans1(h) ==
    /\ h_pc[h] = "resume_trans1"
    /\ UNCHANGED <<vadVars, v_sig, xVars>>
    /\ UNCHANGED <<recording_session, is_writing_enabled, stop_tx, done_rx,
                   is_voice_detection_mode, soniox_tx, clock, tVars, cbVars, gVars>>
    /\ LET r == TransitionState(current_state, h_read[h], "Resuming",
                                recording_session, clock, stamp + 1)
       IN /\ current_state' = r.state
          /\ n_state_events' = n_state_events + r.emit
          /\ stamp' = NextStamp(r)
          /\ IF r.err = "ok"
             THEN Goto(h, "resume_flag", 0, 0)
             ELSE Return(h, "resume", r.err)

\* lib.rs 284: enable writing.
ResumeFlag(h) ==
    /\ h_pc[h] = "resume_flag"
    /\ UNCHANGED <<vadVars, v_sig, xVars>>
    /\ is_writing_enabled' = TRUE
    /\ UNCHANGED <<current_state, recording_session, stop_tx, done_rx,
                   is_voice_detection_mode, soniox_tx, envVars, tVars, cbVars, gVars>>
    /\ Goto(h, "resume_sess", 0, 0)

\* The session after the update of a resume at instant now (lib.rs 288-289).
ResumedSession(sess, now) ==
    IF sess.present
    THEN [sess EXCEPT !.total_elapsed = now - sess.start_time, !.start_time = now]
    ELSE sess

\* lib.rs 287-290: update the session's elapsed time and start instant.
ResumeSession(h) ==
    /\ h_pc[h] = "resume_sess"
    /\ UNCHANGED <<vadVars, v_sig, xVars>>
    /\ recording_session' = ResumedSession(recording_session, clock)
    /\ UNCHANGED <<current_state, is_writing_enabled, stop_tx, done_rx,
                   is_voice_detection_mode, soniox_tx, envVars, tVars, cbVars, gVars>>
    /\ Goto(h, "resume_trans2", 0, 0)

\* lib.rs 293-298: transition Resuming -> Recording.
ResumeTrans2(h) ==
    /\ h_pc[h] = "resume_trans2"
    /\ UNCHANGED <<vadVars, v_sig, xVars>>
    /\ UNCHANGED <<recording_session, is_writing_enabled, stop_tx, done_rx,
                   is_voice_detection_mode, soniox_tx, clock, tVars, cbVars, gVars>>
    /\ LET r == TransitionState(current_state, Plain("Resuming"), "Recording",
                                recording_session, clock, stamp + 1)
       IN /\ current_state' = r.state
          /\ n_state_events' = n_state_events + r.emit
          /\ stamp' = NextStamp(r)
          /\ Return(h, "resume", r.err)

\* ---------------------------------------------- stop_recording (904-919)
\* lib.rs 907: take the stop sender out of the state.
StopTakeTx(h) ==
    /\ CanIssue(h)
    /\ UNCHANGED <<vadVars, v_sig, xVars>>
    /\ stop_tx' = 0
    /\ UNCHANGED <<current_state, recording_session, is_writing_enabled, done_rx,
                   is_voice_detection_mode, soniox_tx, envVars, tVars, cbVars, gVars>>
    /\ issued' = issued + 1
    /\ h_read' = [h_read EXCEPT ![h] = IdleState]
    /\ h_pc' = [h_pc EXCEPT ![h] = "stop_rx"]
    /\ h_thr' = [h_thr EXCEPT ![h] = stop_tx]
    /\ h_rxl' = [h_rxl EXCEPT ![h] = 0]
    /\ h_mut' = [h_mut EXCEPT ![h] = Shared' # Shared]
    /\ UNCHANGED last

\* lib.rs 908-914: take the completion receiver; without a sender or without a
\* receiver return an error (dropping what was taken), else signal the thread.
StopTakeRx(h) ==
    /\ h_pc[h] = "stop_rx"
    /\ done_rx' = 0
    /\ UNCHANGED <<current_state, recording_session, is_writing_enabled, stop_tx,
                   is_voice_detection_mode, soniox_tx, envVars,
                   t_pc, t_writer, t_stream, t_done, t_tr, cbVars, gVars>>
    /\ UNCHANGED <<vadVars, xVars>>
    /\ IF h_thr[h] = 0
       THEN /\ Return(h, "stop", "no_active")
            /\ UNCHANGED <<t_sig, v_sig>>
       ELSE IF done_rx = 0
       THEN /\ Return(h, "stop", "no_channel")
            /\ t_sig' = Dropped(t_sig, h_thr[h])
            /\ v_sig' = VadDropped(v_sig, h_thr[h])
       ELSE /\ Goto(h, "stop_wait", h_thr[h], done_rx)
            /\ t_sig' = Sent(t_sig, h_thr[h])
            /\ v_sig' = VadSent(v_sig, h_thr[h])

\* lib.rs 915-918: wait for the thread's result and return it.
StopWait(h) ==
    /\ h_pc[h] = "stop_wait"
    /\ UNCHANGED <<vadVars, v_sig, xVars>>
    /\ t_done[h_rxl[h]] # "none"
    /\ UNCHANGED <<appVars, envVars, tVars, cbVars, gVars>>
    /\ Return(h, "stop", IF t_done[h_rxl[h]] = "ok" THEN "ok" ELSE "thread_err")

\* ------------------------- capture callback (build_stream_*, 1138-1303)
\* lib.rs 1207-1220: compute and emit the level, then read the writing flag.
CbBegin(t) ==
    /\ t_stream[t]
    /\ UNCHANGED <<vadVars, v_sig, xVars>>
    /\ cb_pc[t] = "idle"
    /\ cb_level' = [cb_level EXCEPT ![t] = TRUE]
    /\ cb_we' = [cb_we EXCEPT ![t] = is_writing_enabled]
    /\ cb_start' = [cb_start EXCEPT ![t] = current_state.type]
    /\ cb_pc' = [cb_pc EXCEPT ![t] = IF is_writing_enabled THEN "write" ELSE "send"]
    /\ UNCHANGED <<appVars, envVars, hVars, tVars, cb_wrote, cb_offered, gVars>>

\* lib.rs 1221-1229: lock the writer and write the chunk's samples.
CbWrite(t) ==
    /\ cb_pc[t] = "write"
    /\ UNCHANGED <<vadVars, v_sig, xVars>>
    /\ cb_wrote' = [cb_wrote EXCEPT ![t] = cb_we[t] /\ t_writer[t] = "open"]
    /\ cb_pc' = [cb_pc EXCEPT ![t] = "send"]
    /\ UNCHANGED <<appVars, envVars, hVars, tVars, cb_we, cb_start, cb_level,
                   cb_offered, gVars>>

\* lib.rs 1234-1242: offer the chunk to the transcription session, if any.
CbSend(t) ==
    /\ cb_pc[t] = "send"
    /\ UNCHANGED <<vadVars, v_sig, xVars>>
    /\ cb_offered' = [cb_offered EXCEPT ![t] = soniox_tx]
    /\ cb_pc' = [cb_pc EXCEPT ![t] = "end"]
    /\ UNCHANGED <<appVars, envVars, hVars, tVars, cb_we, cb_start, cb_level,
                   cb_wrote, gVars>>

\* The callback returns: its locals are gone.
CbEnd(t) ==
    /\ cb_pc[t] = "end"
    /\ UNCHANGED <<vadVars, v_sig, xVars>>
    /\ cb_pc' = [cb_pc EXCEPT ![t] = "idle"]
    /\ cb_we' = [cb_we EXCEPT ![t] = FALSE]
    /\ cb_start' = [cb_start EXCEPT ![t] = "none"]
    /\ cb_wrote' = [cb_wrote EXCEPT ![t] = FALSE]
    /\ cb_level' = [cb_level EXCEPT ![t] = FALSE]
    /\ cb_offered' = [cb_offered EXCEPT ![t] = FALSE]
    /\ UNCHANGED <<appVars, envVars, hVars, tVars, gVars>>

\* ------------------------------------------------------------------ time
\* One millisecond passes between two commands (a command runs in less). The
\* session is active unless paused.
Tick ==
    /\ clock < MaxClock
    /\ \A h \in H : h_pc[h] = "idle"
    /\ UNCHANGED <<vadVars, v_sig, xVars>>
    /\ clock' = clock + 1
    /\ g_active' = IF recording_session.present
                      /\ current_state.type \notin {"Paused", "Resuming"}
                   THEN g_active + 1 ELSE g_active
    /\ UNCHANGED <<appVars, stamp, n_state_events, hVars, tVars, cbVars, g_completed>>

Command(h) ==
    \/ StartCheck(h) \/ StartSpawn(h) \/ StartStoreTx(h) \/ StartStoreRx(h)
    \/ PauseCheck(h) \/ PauseFlag(h) \/ PauseTrans(h)
    \/ ResumeCheck(h) \/ ResumeTrans1(h) \/ ResumeFlag(h) \/ ResumeSession(h)
    \/ ResumeTrans2(h)
    \/ StopTakeTx(h) \/ StopTakeRx(h) \/ StopWait(h)

Thread(t) ==
    \/ ThreadSetup(t) \/ ThreadSession(t) \/ ThreadEnable(t) \/ ThreadTransition(t)
    \/ ThreadStream(t) \/ ThreadFinalize(t)

Callback(t) == CbBegin(t) \/ CbWrite(t) \/ CbSend(t) \/ CbEnd(t)

Next ==
    \/ \E h \in H : Command(h)
    \/ \E t \in Thr : Thread(t)
    \/ \E t \in Thr : Callback(t)

Spec == Init /\ [][Next]_vars

NextTime ==
    \/ Command(1)
    \/ \E t \in Thr : Thread(t)
    \/ Tick

SpecTime == Init /\ [][NextTime]_vars

\* A command that runs to its return in one step.
Finish(k, res) ==
    /\ issued' = issued + 1
    /\ last' = [kind |-> k, res |-> res]
    /\ UNCHANGED <<h_pc, h_read, h_thr, h_rxl, h_mut>>

\* The observed run and segment before a VAD thread's first chunk.
ResetObserved ==
    /\ g_run' = 0
    /\ g_sil' = 0
    /\ g_open' = FALSE
    /\ g_since' = -1
    /\ g_thr_changes' = 0
    /\ g_thr_events' = 0

\* arm_auto_recording (lib.rs 557-587, 851): rejected while a stop sender is
\* stored; else store a new sender, clear the completion receiver, set the
\* voice-detection mode and spawn the VAD thread. One VAD thread runs at a time.
ArmAutoRecording(h) ==
    /\ CanIssue(h)
    /\ stop_tx = 0 => v_pc = "free"
    /\ UNCHANGED <<current_state, recording_session, is_writing_enabled, soniox_tx,
                   envVars, tVars, cbVars, gVars, xVars, writer_state, vad_session_path,
                   voice_currently_detected, captured, chunks, v_written, v_wrote,
                   n_seg_start, n_threshold>>
    /\ IF stop_tx # 0
       THEN /\ Finish("arm", "rejected")
            /\ UNCHANGED <<stop_tx, done_rx, is_voice_detection_mode, v_pc, v_sig, v_par,
                           vad, g_run, g_sil, g_open, g_since, g_thr_changes, g_thr_events>>
       ELSE /\ stop_tx' = VadChan
            /\ done_rx' = 0
            /\ is_voice_detection_mode' = TRUE
            /\ v_pc' = "device"
            /\ v_sig' = "none"
            /\ \E par \in ArmArgs : v_par' = par /\ vad' = VadLocals(par)
            /\ ResetObserved
            /\ Finish("arm", "ok")

\* disarm_auto_recording (lib.rs 854-865).
DisarmAutoRecording(h) ==
    /\ CanIssue(h)
    /\ UNCHANGED <<current_state, recording_session, is_writing_enabled, done_rx, soniox_tx,
                   envVars, t_pc, t_writer, t_stream, t_done, t_tr, cbVars, gVars, xVars,
                   writer_state, vad_session_path, v_pc, v_par, vad, captured, chunks,
                   v_written, v_wrote, n_seg_start, n_threshold, g_run, g_sil, g_open, g_since, g_thr_changes, g_thr_events>>
    /\ IF stop_tx # 0
       THEN /\ stop_tx' = 0
            /\ is_voice_detection_mode' = FALSE
            /\ voice_currently_detected' = FALSE
            /\ t_sig' = Sent(t_sig, stop_tx)
            /\ v_sig' = VadSent(v_sig, stop_tx)
            /\ Finish("disarm", "ok")
       ELSE /\ UNCHANGED <<stop_tx, is_voice_detection_mode, voice_currently_detected,
                           t_sig, v_sig>>
            /\ Finish("disarm", "not_active")

\* guard.take() left the writer where it was.
TakeWriter_Keep(ws) == ws

\* lib.rs 884: guard.take() leaves None in the shared slot.
TakeWriter(ws) == "none"

\* finalize_auto_recording (lib.rs 867-902).
FinalizeAutoRecording(h) ==
    /\ CanIssue(h)
    /\ UNCHANGED <<appVars, envVars, tVars, cbVars, gVars, wVars, sVars, yVars, g_writers,
                   voice_currently_detected,
                   v_pc, v_sig, v_par, vad, captured, chunks, v_written, v_wrote,
                   n_seg_start, n_threshold, g_run, g_sil, g_open, g_since, g_thr_changes, g_thr_events>>
    /\ IF stop_tx # 0
       THEN Finish("finalize", "busy") /\ UNCHANGED <<writer_state, vad_session_path, g_fin>>
       ELSE IF ~vad_session_path
       THEN Finish("finalize", "no_session") /\ UNCHANGED <<writer_state, vad_session_path, g_fin>>
       ELSE IF writer_state = "poisoned"
       THEN Finish("finalize", "panic") /\ UNCHANGED <<writer_state, vad_session_path, g_fin>>
       ELSE /\ writer_state' = TakeWriter(writer_state)
            /\ g_fin' = IF writer_state = "open" THEN Append(g_fin, g_writers) ELSE g_fin
            /\ vad_session_path' = FALSE
            /\ IF writer_state = "open"
               THEN \E ok \in BOOLEAN : Finish("finalize", IF ok THEN "ok" ELSE "io_err")
               ELSE Finish("finalize", "no_writer")

\* The VAD thread moves from one position to the next.
VadGoto(pc) ==
    /\ v_pc' = pc
    /\ UNCHANGED <<appVars, envVars, hVars, tVars, cbVars, gVars, wVars, sVars, yVars, g_fin,
                   voice_currently_detected,
                   v_sig, v_par, vad, captured, chunks, v_wrote, n_seg_start, n_threshold,
                   g_run, g_sil, g_open, g_since, g_thr_changes, g_thr_events>>

\* lib.rs 589-605: the input device and its configuration; a failure ends the thread.
VadDevice ==
    /\ v_pc = "device"
    /\ \E ok \in BOOLEAN : VadGoto(IF ok THEN "path" ELSE "free")
    /\ UNCHANGED <<writer_state, vad_session_path, v_written, g_writers>>

\* lib.rs 610-619: choose the session path unless one is set.
VadPath ==
    /\ v_pc = "path"
    /\ vad_session_path' = TRUE
    /\ VadGoto("writer")
    /\ UNCHANGED <<writer_state, v_written, g_writers>>

\* lib.rs 620-644: create the session writer unless one exists; a failure ends
\* the thread. The path is read with unwrap() under the writer's lock (623):
\* without a path the thread panics and leaves the writer's mutex poisoned, and
\* every later writer_state.lock().unwrap() panics in its turn.
VadWriter ==
    /\ v_pc = "writer"
    /\ UNCHANGED vad_session_path
    /\ IF writer_state = "poisoned"
       THEN UNCHANGED <<writer_state, v_written, g_writers>> /\ VadGoto("free")
       ELSE IF writer_state = "none"
       THEN IF vad_session_path
            THEN \E ok \in BOOLEAN :
                    IF ok
                    THEN /\ writer_state' = "open"
                         /\ v_written' = <<>>
                         /\ g_writers' = g_writers + 1
                         /\ VadGoto("stream")
                    ELSE UNCHANGED <<writer_state, v_written, g_writers>> /\ VadGoto("free")
            ELSE /\ writer_state' = "poisoned"
                 /\ UNCHANGED <<v_written, g_writers>>
                 /\ VadGoto("free")
       ELSE UNCHANGED <<writer_state, v_written, g_writers>> /\ VadGoto("stream")

\* lib.rs 806-842: build and play the input stream; a failure ends the thread.
VadStream ==
    /\ v_pc = "stream"
    /\ \E ok \in BOOLEAN : VadGoto(IF ok THEN "wait" ELSE "free")
    /\ UNCHANGED <<writer_state, vad_session_path, v_written, g_writers>>

\* One callback of the VAD stream: process_chunk on the chunk it delivers.
VadChunk ==
    /\ v_pc = "wait"
    /\ chunks < MaxChunks
    /\ \E n \in ChunkFrames, lv \in Levels :
        LET samples == [i \in 1..(n * Channels) |-> captured + i]
            cms     == ChunkMs(Len(samples))
            r       == ProcessChunk(vad, v_par, samples, lv.rms, lv.peak)
            ends    == ~r.detected /\ g_open /\ g_sil + cms >= v_par.silence_ms
        IN /\ vad' = r.vad
           /\ captured' = captured + Len(samples)
           /\ n_threshold' = n_threshold + (IF r.threshold THEN 1 ELSE 0)
           /\ n_seg_start' = n_seg_start + (IF r.start THEN 1 ELSE 0)
           /\ voice_currently_detected' =
                 IF r.start THEN TRUE ELSE IF r.stop THEN FALSE ELSE voice_currently_detected
           /\ v_wrote' = (writer_state = "open" /\ r.writes # <<>>)
           /\ v_written' = IF writer_state = "open" THEN v_written \o r.writes ELSE v_written
           /\ g_run' = IF r.detected THEN g_run + cms ELSE 0
           /\ g_sil' = IF ~r.detected /\ g_open /\ ~ends THEN g_sil + cms ELSE 0
           /\ g_open' = IF r.start THEN TRUE ELSE IF ends THEN FALSE ELSE g_open
           /\ g_since' = IF ends THEN 0
                        ELSE IF g_open \/ g_since < 0 THEN -1
                        ELSE g_since + cms
           /\ g_thr_changes' =
                 g_thr_changes + (IF r.vad.threshold_eff # vad.threshold_eff THEN 1 ELSE 0)
           /\ g_thr_events' = g_thr_events + (IF r.threshold THEN 1 ELSE 0)
    /\ chunks' = chunks + 1
    /\ UNCHANGED <<appVars, envVars, hVars, tVars, cbVars, gVars, xVars, writer_state,
                   vad_session_path, v_pc, v_sig, v_par>>

\* lib.rs 845-849: rx.recv() returns, the stream is dropped and the thread ends
\* without finalizing the writer; its locals are gone.
VadStop ==
    /\ v_pc = "wait"
    /\ v_sig # "none"
    /\ v_pc' = "free"
    /\ vad' = VadLocals(v_par)
    /\ v_wrote' = FALSE
    /\ ResetObserved
    /\ UNCHANGED <<appVars, envVars, hVars, tVars, cbVars, gVars, xVars, writer_state,
                   vad_session_path, voice_currently_detected, v_sig, v_par, captured,
                   chunks, v_written, n_seg_start, n_threshold>>

VadThread == VadDevice \/ VadPath \/ VadWriter \/ VadStream \/ VadChunk \/ VadStop

NextVad ==
    \/ ArmAutoRecording(1) \/ DisarmAutoRecording(1) \/ FinalizeAutoRecording(1)
    \/ StopTakeTx(1) \/ StopTakeRx(1)
    \/ VadThread

SpecVad == Init /\ [][NextVad]_vars

\* ------------------- manual and automatic capture side by side
\* The commands of both paths issued one after the other, with the setup and
\* the end of the capture threads and of the VAD thread they spawn.
NextModes ==
    \/ ArmAutoRecording(1) \/ DisarmAutoRecording(1)
    \/ StartCheck(1) \/ StartSpawn(1) \/ StartStoreTx(1) \/ StartStoreRx(1)
    \/ StopTakeTx(1) \/ StopTakeRx(1) \/ StopWait(1)
    \/ \E t \in Thr : Thread(t)
    \/ VadDevice \/ VadPath \/ VadWriter \/ VadStream \/ VadStop

SpecModes == Init /\ [][NextModes]_vars

\* ------------------------------------- an AudioWriter::Mp3 on its own
\* A frame counted full one sample late.
FrameFull_Late(len, c) == len > SamplesPerFrame * c

\* audio.rs 26-27.
FrameFull(len, c) == len >= SamplesPerFrame * c

\* The failures met so far leave room for k more.
CanFail(k) == w_codec_faults + w_io_faults + k <= MaxFaults

\* lib.rs 634: an AudioWriter::Mp3 of c channels with an empty buffer.
NewMp3Writer ==
    /\ aw.state = "none"
    /\ \E c \in 1..MaxWriterChannels : aw' = NewWriter(c)
    /\ UNCHANGED <<appVars, envVars, hVars, tVars, cbVars, gVars, vadVars, v_sig, fVars, sVars, yVars,
                   w_calls, w_enc, w_left, w_right, w_frames, w_codec_faults,
                   w_io_faults, w_last>>

\* AudioWriter::write_sample (audio.rs 18-33); the k-th call is given sample k.
WriteSample ==
    /\ aw.state = "open"
    /\ w_calls < MaxWrites
    /\ LET buf1 == Append(aw.buffer, w_calls + 1)
           full == FrameFull(Len(buf1), aw.channels)
           e    == EncodeArgs(buf1, aw.channels)
       IN \E o \in Outcomes :
        LET r == FlushMp3Buffer(IF full THEN buf1 ELSE <<>>, aw.channels, o)
        IN /\ IF full THEN CanFail(Faults(o)) ELSE o = "bytes"
           /\ aw' = [aw EXCEPT !.buffer = IF full THEN r.buffer ELSE buf1]
           /\ w_enc' = w_enc + (IF r.encoded THEN 1 ELSE 0)
           /\ w_left' = IF r.encoded THEN e.left ELSE w_left
           /\ w_right' = IF r.encoded THEN e.right ELSE w_right
           /\ w_frames' = w_frames + (IF r.wrote THEN 1 ELSE 0)
           /\ w_codec_faults' = w_codec_faults + (IF full /\ o = "codec_err" THEN 1 ELSE 0)
           /\ w_io_faults' = w_io_faults + (IF full /\ o = "io_err" THEN 1 ELSE 0)
           /\ w_last' = [NoCall EXCEPT !.op = "write",
                                       !.encodes = IF r.encoded THEN 1 ELSE 0,
                                       !.outcome = IF r.encoded THEN o ELSE "none",
                                       !.ret = r.ret]
    /\ w_calls' = w_calls + 1
    /\ UNCHANGED <<appVars, envVars, hVars, tVars, cbVars, gVars, vadVars, v_sig, fVars,
                   sVars, yVars>>

\* AudioWriter::finalize (audio.rs 78-101): flush_mp3_buffer with outcome o1;
\* unless that returned an error, the codec flush with outcome o2; unless its
\* write_all failed, file.flush(), which succeeds or not. The writer is consumed.
Finalize ==
    /\ aw.state = "open"
    /\ LET e == EncodeArgs(aw.buffer, aw.channels)
       IN \E o1 \in Outcomes, o2 \in Outcomes, ff \in BOOLEAN :
        LET r1       == FlushMp3Buffer(aw.buffer, aw.channels, o1)
            flushing == r1.ret = "ok"
            closing  == flushing /\ o2 # "io_err"
            f1       == IF r1.encoded THEN Faults(o1) ELSE 0
            f2       == IF flushing THEN Faults(o2) ELSE 0
            f3       == IF closing /\ ~ff THEN 1 ELSE 0
        IN /\ ~r1.encoded => o1 = "bytes"
           /\ ~flushing => o2 = "bytes"
           /\ ~closing => ff
           /\ CanFail(f1 + f2 + f3)
           /\ w_enc' = w_enc + (IF r1.encoded THEN 1 ELSE 0)
           /\ w_left' = IF r1.encoded THEN e.left ELSE w_left
           /\ w_right' = IF r1.encoded THEN e.right ELSE w_right
           /\ w_frames' = w_frames + (IF r1.wrote THEN 1 ELSE 0)
           /\ w_codec_faults' = w_codec_faults
                 + (IF r1.encoded /\ o1 = "codec_err" THEN 1 ELSE 0)
                 + (IF flushing /\ o2 = "codec_err" THEN 1 ELSE 0)
           /\ w_io_faults' = w_io_faults
                 + (IF r1.encoded /\ o1 = "io_err" THEN 1 ELSE 0)
                 + (IF flushing /\ o2 = "io_err" THEN 1 ELSE 0) + f3
           /\ w_last' = [ op |-> "finalize",
                          encodes |-> IF r1.encoded THEN 1 ELSE 0,
                          outcome |-> IF r1.encoded THEN o1 ELSE "none",
                          codec_flush |-> IF flushing THEN 1 ELSE 0,
                          flush_after_encode |-> flushing,
                          flush_outcome |-> IF flushing THEN o2 ELSE "none",
                          tail_written |-> flushing /\ o2 = "bytes",
                          file_flush |-> closing,
                          ret |-> IF closing /\ ff THEN "ok" ELSE "err" ]
    /\ aw' = [aw EXCEPT !.state = "gone", !.buffer = <<>>]
    /\ UNCHANGED <<appVars, envVars, hVars, tVars, cbVars, gVars, vadVars, v_sig, fVars, sVars, yVars,
                   w_calls>>

NextWriter == NewMp3Writer \/ WriteSample \/ Finalize

SpecWriter == Init /\ [][NextWriter]_vars

\* ------------------------------- the audio-to-transcription channel
\* mpsc::channel::<AudioChunk>(32) (soniox.rs 59).
AudioChannelBound == 32

\* A full channel made room by letting its oldest chunk go.
ChannelTrySend_Evict(q, x, open) ==
    IF ~open THEN q
    ELSE IF Len(q) >= AudioChannelBound THEN Append(Tail(q), x)
    ELSE Append(q, x)

\* Sender::try_send (soniox.rs 49-51, lib.rs 1236): the chunk is queued unless
\* the channel is full or its receiver is gone; it never waits.
ChannelTrySend(q, x, open) ==
    IF ~open \/ Len(q) >= AudioChannelBound THEN q ELSE Append(q, x)

\* What the session actions leave alone.
SxFrame ==
    UNCHANGED <<current_state, recording_session, is_writing_enabled, stop_tx, done_rx,
                is_voice_detection_mode, envVars, hVars, tVars, cbVars, gVars, vadVars,
                v_sig, wVars, fVars, yVars>>

\* start_soniox_session (lib.rs 945-973, soniox.rs 54-65, 234): refused while a
\* sender is stored or without an API key; else a new channel, its receiver
\* with the spawned session loop, its sender stored.
StartSonioxSession ==
    /\ SxFrame
    /\ UNCHANGED sx_offered
    /\ IF soniox_tx
       THEN /\ sx_last' = "already_running"
            /\ UNCHANGED <<soniox_tx, sx_chan, sx_sent, sx_loop, sx_eoa>>
       ELSE \E key \in BOOLEAN :
              IF key
              THEN /\ soniox_tx' = TRUE
                   /\ sx_chan' = <<>>
                   /\ sx_sent' = <<>>
                   /\ sx_loop' = "running"
                   /\ sx_last' = "started"
                   /\ sx_eoa' = 0
              ELSE /\ sx_last' = "no_key"
                   /\ UNCHANGED <<soniox_tx, sx_chan, sx_sent, sx_loop, sx_eoa>>

\* stop_soniox_session (lib.rs 975-979): the stored sender is dropped.
StopSonioxSession ==
    /\ SxFrame
    /\ soniox_tx' = FALSE
    /\ sx_last' = "stopped"
    /\ UNCHANGED <<sx_chan, sx_offered, sx_sent, sx_loop, sx_eoa>>

\* The end of a capture callback (lib.rs 1232-1242, 793-803): the chunk is
\* offered to the session, if one is stored, and the callback returns.
SonioxOffer ==
    /\ SxFrame
    /\ sx_offered < MaxOffered
    /\ sx_offered' = sx_offered + 1
    /\ sx_chan' = IF soniox_tx
                  THEN ChannelTrySend(sx_chan, sx_offered + 1, sx_loop = "running")
                  ELSE sx_chan
    /\ sx_last' = IF ~soniox_tx THEN "no_session"
                  ELSE IF sx_chan' = sx_chan THEN "dropped" ELSE "accepted"
    /\ UNCHANGED <<soniox_tx, sx_sent, sx_loop, sx_eoa>>

\* The audio branch of the session loop (soniox.rs 141-153): the oldest chunk is
\* received and its frame sent; a failed send ends the loop and its receiver.
SessionAudio ==
    /\ SxFrame
    /\ sx_loop = "running"
    /\ sx_chan # <<>>
    /\ \E ok \in BOOLEAN :
          IF ok
          THEN /\ sx_sent' = Append(sx_sent, Head(sx_chan))
               /\ sx_chan' = Tail(sx_chan)
               /\ UNCHANGED sx_loop
          ELSE /\ sx_chan' = <<>>
               /\ sx_loop' = "ended"
               /\ UNCHANGED sx_sent
    /\ UNCHANGED <<soniox_tx, sx_offered, sx_last, sx_eoa>>

\* recv() gave None as soon as the sender was dropped.
RecvNone_SenderOnly(q, tx) == ~tx

\* Receiver::recv (soniox.rs 141, 154): None once the sender is dropped and the
\* channel holds nothing more.
RecvNone(q, tx) == q = <<>> /\ ~tx

\* soniox.rs 154-158: the channel is empty and its sender dropped; the loop
\* sends the empty text frame and ends.
SessionClosed ==
    /\ SxFrame
    /\ sx_loop = "running"
    /\ RecvNone(sx_chan, soniox_tx)
    /\ sx_eoa' = sx_eoa + 1
    /\ sx_loop' = "ended"
    /\ UNCHANGED <<soniox_tx, sx_chan, sx_offered, sx_sent, sx_last>>

\* soniox.rs 161-226: an error, a close or the end of the transcript from the
\* service ends the loop; what the channel held is dropped with its receiver.
SessionBreak ==
    /\ SxFrame
    /\ sx_loop = "running"
    /\ sx_loop' = "ended"
    /\ sx_chan' = <<>>
    /\ UNCHANGED <<soniox_tx, sx_offered, sx_sent, sx_last, sx_eoa>>

NextSoniox ==
    \/ StartSonioxSession \/ StopSonioxSession \/ SonioxOffer
    \/ SessionAudio \/ SessionClosed \/ SessionBreak

SpecSoniox == Init /\ [][NextSoniox]_vars

\* --------------------------------- the session loop (soniox.rs 65-232)
\* Events: status, error and transcript events; text is a transcript's payload.
Status(name) == [kind |-> "status", name |-> name, text |-> <<>>]
ErrorEvent(name) == [kind |-> "error", name |-> name, text |-> <<>>]
Transcript(text) == [kind |-> "transcript", name |-> "", text |-> text]
BytesEvent == [kind |-> "bytes", name |-> "", text |-> <<>>]

\* soniox.rs 209-210.
Placeholder == <<"[no speech detected]">>

\* The token lists of the inbound messages of the model: a final token of
\* speaker 2; a final token of speaker 1 and a non-final token of no speaker;
\* that non-final token alone; a final token that is only a tag; a token of
\* empty text; no token.
TokenLists ==
    { <<>>,
      <<Tok(<<"a">>, TRUE, TRUE, 2)>>,
      <<Tok(<<Space, "b">>, TRUE, TRUE, 1), Tok(<<"c">>, FALSE, FALSE, 0)>>,
      <<Tok(<<"c">>, FALSE, FALSE, 0)>>,
      <<Tok(<<Tag>>, TRUE, FALSE, 0)>>,
      <<Tok(<<>>, FALSE, TRUE, 1)>> }

\* What ws_reader.next() can yield (soniox.rs 161-225).
Inbound ==
    [kind : {"text"}, parsed : {TRUE}, error_code : {FALSE}, tokens : TokenLists,
     finished : BOOLEAN]
    \cup { [kind |-> "text", parsed |-> TRUE, error_code |-> TRUE, tokens |-> <<>>,
            finished |-> FALSE],
           [kind |-> "text", parsed |-> FALSE, error_code |-> FALSE, tokens |-> <<>>,
            finished |-> FALSE] }
    \cup [kind : {"binary", "control", "close", "read_error", "end"}, parsed : {FALSE},
          error_code : {FALSE}, tokens : {<<>>}, finished : {FALSE}]

NonEmptyText(tok) == tok.text # <<>>
IsFinal(tok) == tok.text # <<>> /\ tok.is_final
IsNonFinal(tok) == tok.text # <<>> /\ ~tok.is_final

\* The accumulation also took the non-final tokens.
Collect_All(ft, tokens) == ft \o SelectSeq(tokens, NonEmptyText)

\* soniox.rs 178-188: the final tokens of the message join the accumulation.
Collect(ft, tokens) == ft \o SelectSeq(tokens, IsFinal)

\* An error was reported and the loop went on.
ErrorExit_GoOn(name) == [events |-> <<ErrorEvent(name)>>, brk |-> FALSE]

\* soniox.rs 146-147, 168-169, 223: one error event, then break.
ErrorExit(name) == [events |-> <<ErrorEvent(name)>>, brk |-> TRUE]

\* Only a message with tokens had its rendering emitted.
Emits_TokensOnly(has_tokens, text) == has_tokens

\* soniox.rs 194: the rendering is emitted, else the placeholder.
Emits(has_tokens, text) == has_tokens \/ text # <<>>

\* A clear left the accumulation as it was.
Cleared_Keep(ft) == ft

\* soniox.rs 134: final_tokens.clear().
Cleared(ft) == <<>>

\* No "ended" after an error.
Teardown_NotAfterError(events) ==
    IF events # <<>> /\ events[Len(events)].kind = "error" THEN events
    ELSE Append(events, Status("ended"))

\* soniox.rs 230-231: what follows the loop, however it was left.
Teardown(events) == Append(events, Status("ended"))

\* The websocket branch on a text message (soniox.rs 163-215): the locals
\* afterwards, the events emitted, whether the loop breaks, whether a rendering
\* was made and whether it was withheld.
HandleText(ft, le, sr, msg) ==
    LET same == [final_tokens |-> ft, last_emitted_text |-> le, suppress_repeat |-> sr,
                 events |-> <<>>, brk |-> FALSE, rendered |-> FALSE, held |-> FALSE,
                 text |-> <<>>]
        ft2  == Collect(ft, msg.tokens)
        has  == \E i \in 1..Len(msg.tokens) : NonEmptyText(msg.tokens[i])
        text == RenderTokens(ft2, SelectSeq(msg.tokens, IsNonFinal))
        fin  == IF msg.finished THEN <<Status("finished")>> ELSE <<>>
    IN IF ~msg.parsed THEN same
       ELSE IF msg.error_code
       THEN [same EXCEPT !.events = ErrorExit("error_code").events,
                         !.brk = ErrorExit("error_code").brk]
       ELSE IF Emits(has, text)
       THEN IF sr.some /\ sr.text = text
            THEN [same EXCEPT !.final_tokens = ft2, !.rendered = TRUE, !.held = TRUE,
                              !.text = text]
            ELSE [final_tokens |-> ft2, last_emitted_text |-> text,
                  suppress_repeat |-> NoText, events |-> <<Transcript(text)>> \o fin,
                  brk |-> msg.finished, rendered |-> TRUE, held |-> FALSE, text |-> text]
       ELSE [final_tokens |-> ft2, last_emitted_text |-> Placeholder,
             suppress_repeat |-> sr, events |-> <<Transcript(Placeholder)>> \o fin,
             brk |-> msg.finished, rendered |-> FALSE, held |-> FALSE, text |-> text]

\* The websocket branch (soniox.rs 161-226).
HandleInbound(ft, le, sr, item) ==
    LET same == [final_tokens |-> ft, last_emitted_text |-> le, suppress_repeat |-> sr,
                 events |-> <<>>, brk |-> FALSE, rendered |-> FALSE, held |-> FALSE,
                 text |-> <<>>]
    IN IF item.kind = "text" THEN HandleText(ft, le, sr, item)
       ELSE IF item.kind = "close"
       THEN [same EXCEPT !.events = <<Status("closed")>>, !.brk = TRUE]
       ELSE IF item.kind = "read_error"
       THEN [same EXCEPT !.events = ErrorExit("read").events, !.brk = ErrorExit("read").brk]
       ELSE IF item.kind = "end" THEN [same EXCEPT !.brk = TRUE]
       ELSE same

\* What the session actions leave alone.
SeFrame == UNCHANGED <<appVars, envVars, hVars, tVars, cbVars, gVars, vadVars, v_sig, wVars,
                       fVars, sVars, pVars, kVars>>

\* One iteration of the loop is over: its events and frames, and the teardown
\* if it broke out.
Iteration(item, events, frames, brk) ==
    LET all == IF brk THEN Teardown(events) ELSE events
        IsError(e) == e.kind = "error"
        IsEnded(e) == e = Status("ended")
    IN /\ se_in' = item
       /\ se_events' = all
       /\ se_frames' = frames
       /\ se_loop' = IF brk THEN "ended" ELSE "running"
       /\ n_events' = n_events + Len(all)
       /\ n_errors' = n_errors + Len(SelectSeq(all, IsError))
       /\ n_ended' = n_ended + Len(SelectSeq(all, IsEnded))

\* The spawned task up to its loop (soniox.rs 65-123): connect and send the
\* configuration; a failure of either is reported and ends the task.
SessionEnter ==
    /\ SeFrame
    /\ se_loop = "none"
    /\ \E r \in {"connect_failed", "config_failed", "ok"} :
          LET events ==
                IF r = "connect_failed"
                THEN <<Status("connecting"), ErrorEvent("connect")>>
                ELSE IF r = "config_failed"
                THEN <<Status("connecting"), Status("connected"), ErrorEvent("config")>>
                ELSE <<Status("connecting"), Status("connected"), Status("config_sent")>>
          IN /\ se_in' = [kind |-> r]
             /\ se_events' = events
             /\ se_frames' = IF r = "ok" THEN <<"config">> ELSE <<>>
             /\ se_loop' = IF r = "ok" THEN "running" ELSE "failed"
             /\ n_events' = Len(events)
             /\ n_errors' = IF r = "ok" THEN 0 ELSE 1
             /\ n_ended' = 0
    /\ UNCHANGED <<final_tokens, last_emitted_text, suppress_repeat, se_inbox, se_cleared,
                   se_held, se_rendered, n_msgs, n_ctrl, n_audio>>

\* The websocket branch of the loop (soniox.rs 161-226) on one item.
SessionMessage ==
    /\ SeFrame
    /\ se_loop = "running"
    /\ n_msgs < MaxMsgs
    /\ \E item \in Inbound :
          LET r == HandleInbound(final_tokens, last_emitted_text, suppress_repeat, item)
              taken == item.kind = "text" /\ item.parsed /\ ~item.error_code
          IN /\ final_tokens' = r.final_tokens
             /\ last_emitted_text' = r.last_emitted_text
             /\ suppress_repeat' = r.suppress_repeat
             /\ se_inbox' = IF taken THEN Append(se_inbox, item.tokens) ELSE se_inbox
             /\ se_held' = se_held + (IF r.held THEN 1 ELSE 0)
             /\ se_rendered' = se_rendered + (IF r.rendered THEN 1 ELSE 0)
             /\ Iteration(item, r.events, <<>>, r.brk)
    /\ n_msgs' = n_msgs + 1
    /\ UNCHANGED <<se_cleared, n_ctrl, n_audio>>

\* The control branch of the loop (soniox.rs 126-139): a clear-transcript
\* command, or None once every control sender is dropped.
SessionControl ==
    /\ SeFrame
    /\ se_loop = "running"
    /\ n_ctrl < MaxCtrl
    /\ \E cmd \in {"clear", "ctrl_closed"} :
          /\ Iteration([kind |-> cmd], <<>>, <<>>, FALSE)
          /\ IF cmd = "clear"
             THEN /\ suppress_repeat' = IF suppress_repeat.some THEN suppress_repeat
                                        ELSE SomeText(last_emitted_text)
                  /\ final_tokens' = Cleared(final_tokens)
                  /\ last_emitted_text' = <<>>
                  /\ se_inbox' = <<>>
                  /\ se_cleared' = TRUE
                  /\ se_held' = 0
                  /\ se_rendered' = 0
             ELSE UNCHANGED <<suppress_repeat, final_tokens, last_emitted_text, se_inbox,
                              se_cleared, se_held, se_rendered>>
    /\ n_ctrl' = n_ctrl + 1
    /\ UNCHANGED <<n_msgs, n_audio>>

\* The audio branch of the loop (soniox.rs 141-159) on what rx.recv() and the
\* send of the frame come to; every 48000 bytes sent are reported.
SessionChunk ==
    /\ SeFrame
    /\ se_loop = "running"
    /\ n_audio < MaxAudio
    /\ \E r \in {"sent", "sent_reported", "send_failed", "channel_closed"} :
          Iteration([kind |-> r],
                    IF r = "send_failed" THEN ErrorExit("send").events
                    ELSE IF r = "sent_reported" THEN <<BytesEvent>> ELSE <<>>,
                    IF r = "channel_closed" THEN <<"text_empty">>
                    ELSE IF r = "send_failed" THEN <<>> ELSE <<"binary">>,
                    IF r = "send_failed" THEN ErrorExit("send").brk
                    ELSE r = "channel_closed")
    /\ n_audio' = n_audio + 1
    /\ UNCHANGED <<final_tokens, last_emitted_text, suppress_repeat, se_inbox, se_cleared,
                   se_held, se_rendered, n_msgs, n_ctrl>>

NextSession == SessionEnter \/ SessionMessage \/ SessionControl \/ SessionChunk

SpecSession == Init /\ [][NextSession]_vars

\* ------------------------------ calls of the pure functions (soniox.rs)
\* The tokens render_tokens is called with: text of speaker 2, text with a
\* leading space of speaker 1, text of no speaker, a blank of speaker 1, a tag
\* of speaker 2.
FinalToks ==
    { Tok(<<"a">>, TRUE, TRUE, 2), Tok(<<Space, "b">>, TRUE, TRUE, 1),
      Tok(<<"c">>, TRUE, FALSE, 0), Tok(<<Space>>, TRUE, TRUE, 1),
      Tok(<<Tag>>, TRUE, TRUE, 2) }

NonFinalToks ==
    { Tok(<<"c">>, FALSE, FALSE, 0), Tok(<<"a">>, FALSE, TRUE, 2),
      Tok(<<Space>>, FALSE, TRUE, 1) }

SeqsUpTo(S, n) == UNION { [1..k -> S] : k \in 0..n }

\* i16 samples: the extremes, small negatives, the values of the downmix test.
Samples == {-32768, -3, -1, 1, 1000, 3000, 32767}

\* `as i16` of an i32.
AsI16(x) == ((x + 32768) % 65536) - 32768

\* i32 division: the quotient truncated toward zero.
TruncDiv(a, b) == IF a >= 0 THEN a \div b ELSE -((-a) \div b)

RECURSIVE Sum(_)
Sum(q) == IF q = <<>> THEN 0 ELSE Head(q) + Sum(Tail(q))

\* slice::chunks: consecutive groups of n, the last one shorter if need be.
RECURSIVE Chunks(_, _)
Chunks(q, n) ==
    IF q = <<>> THEN <<>>
    ELSE IF Len(q) <= n THEN <<q>>
    ELSE <<SubSeq(q, 1, n)>> \o Chunks(SubSeq(q, n + 1, Len(q)), n)

\* The downmix of to_pcm16_mono_16k (soniox.rs 403-413).
Downmix(samples, channels) ==
    IF channels <= 1 THEN samples
    ELSE LET cs == Chunks(samples, channels)
         IN [k \in 1..Len(cs) |-> AsI16(TruncDiv(Sum(cs[k]), channels))]

\* The two bytes, high byte first.
ToLeBytes_BigEndian(s) == <<(s % 65536) \div 256, (s % 65536) % 256>>

\* i16::to_le_bytes: the two's complement of s, low byte first.
ToLeBytes(s) == <<(s % 65536) % 256, (s % 65536) \div 256>>

RECURSIVE Encode(_)
Encode(mono) == IF mono = <<>> THEN <<>> ELSE ToLeBytes(Head(mono)) \o Encode(Tail(mono))

\* to_pcm16_mono_16k on input at 16 kHz (soniox.rs 401-423).
ToPcm16Mono16k(samples, channels) == Encode(Downmix(samples, channels))

\* What a call of a pure function leaves alone.
FnFrame == UNCHANGED <<appVars, envVars, hVars, tVars, cbVars, gVars, vadVars, v_sig, wVars,
                       fVars, sVars, eVars, kVars>>

\* render_tokens(finals, non_finals).
RenderCall ==
    /\ FnFrame
    /\ p_op = "none"
    /\ \E f \in SeqsUpTo(FinalToks, MaxFinals), n \in SeqsUpTo(NonFinalToks, MaxNonFinals) :
          /\ p_op' = "render_tokens"
          /\ p_in' = [finals |-> f, non_finals |-> n]
          /\ p_out' = RenderTokens(f, n)

\* to_pcm16_mono_16k(samples, channels, 16_000).
PcmCall ==
    /\ FnFrame
    /\ p_op = "none"
    /\ \E q \in SeqsUpTo(Samples, MaxSamples), c \in 1..MaxPcmChannels :
          /\ p_op' = "to_pcm16_mono_16k"
          /\ p_in' = [samples |-> q, channels |-> c, sample_rate |-> 16000]
          /\ p_out' = ToPcm16Mono16k(q, c)

\* ---------------------- the resampling path of to_pcm16_mono_16k (425-446)
\* An f32 of positive value is the pair of its 24-bit mantissa m and its
\* exponent e, of value m * 2^e. Every intermediate stays below 2^31.
MantissaBits == 24
OutRate == 16000

RECURSIVE Pow2(_)
Pow2(n) == IF n = 0 THEN 1 ELSE 2 * Pow2(n - 1)

RECURSIVE BitLen(_)
BitLen(x) == IF x = 0 THEN 0 ELSE 1 + BitLen(x \div 2)

\* q with the remainder rem of a division by b: rounded to nearest, ties to even.
RoundQuotient(q, rem, b) ==
    IF 2 * rem > b \/ (2 * rem = b /\ q % 2 = 1) THEN q + 1 ELSE q

\* The quotient a / b developed bit by bit to a full mantissa.
RECURSIVE Develop(_, _, _, _)
Develop(q, rem, e, b) ==
    IF q >= Pow2(MantissaBits - 1) THEN [m |-> RoundQuotient(q, rem, b), e |-> e]
    ELSE Develop(2 * q + (IF 2 * rem >= b THEN 1 ELSE 0), (2 * rem) % b, e - 1, b)

\* a as f32 / b as f32 for 0 < a < 2^23 and 0 < b < 2^24 (soniox.rs 427).
F32Div(a, b) == Develop(a \div b, a % b, 0, b)

\* (n as f32) * x for 0 < n < 2^18 (soniox.rs 428): the exact product
\* n * x.m, held as top * 4096 + low, rounded to a mantissa.
F32Mul(n, x) ==
    LET hi   == x.m \div 4096
        lo   == x.m % 4096
        top  == n * hi + ((n * lo) \div 4096)
        low  == (n * lo) % 4096
        d    == Max(0, BitLen(top) + 12 - MantissaBits)
        q    == IF d >= 12 THEN top \div Pow2(d - 12)
                ELSE top * Pow2(12 - d) + (low \div Pow2(d))
        rem  == IF d >= 12 THEN (top % Pow2(d - 12)) * 4096 + low ELSE low % Pow2(d)
    IN [m |-> RoundQuotient(q, rem, Pow2(d)), e |-> x.e + d]

\* A length that truncates the product.
F32Ceil_Floor(x) == IF x.e >= 0 THEN x.m * Pow2(x.e) ELSE x.m \div Pow2(-x.e)

\* f32::ceil as usize.
F32Ceil(x) ==
    IF x.e >= 0 THEN x.m * Pow2(x.e)
    ELSE (x.m \div Pow2(-x.e)) + (IF x.m % Pow2(-x.e) = 0 THEN 0 ELSE 1)

\* out_len (soniox.rs 425-428) for n mono samples at sample_rate.
OutLen(n, sample_rate) ==
    IF n = 0 THEN 0 ELSE F32Ceil(F32Mul(n, F32Div(OutRate, sample_rate)))

\* The rates of the input device on the resampling path.
SourceRates == {8000, 22050, 44100, 48000}

\* to_pcm16_mono_16k on n mono samples, the first being `first`, at a rate
\* other than 16 kHz (soniox.rs 425-445): the number of bytes of the output,
\* and the bytes of its first sample, which is interpolated at src_pos 0 with
\* frac 0, that is mono[0] itself.
Resample(n, first, sample_rate) ==
    [len   |-> 2 * OutLen(n, sample_rate),
     first |-> IF OutLen(n, sample_rate) > 0 THEN ToLeBytes(first) ELSE <<>>]

\* to_pcm16_mono_16k(samples, 1, sample_rate) with sample_rate # 16_000.
ResampleCall ==
    /\ FnFrame
    /\ p_op = "none"
    /\ \E n \in 0..MaxResampled, s \in {-32768, 1000}, r \in SourceRates :
          /\ p_op' = "resample"
          /\ p_in' = [n |-> n, first |-> s, channels |-> 1, sample_rate |-> r]
          /\ p_out' = Resample(n, s, r)

NextFn == RenderCall \/ PcmCall \/ ResampleCall

SpecFn == Init /\ [][NextFn]_vars

\* ------------------------- a chunk processor at device rates (669-804)
\* Input configurations and the chunks their streams deliver: 8 kHz mono in
\* chunks of half a millisecond, of one and a half, and of one millisecond.
Devices ==
    { [rate |-> 8000, channels |-> 1, frames |-> 4],
      [rate |-> 8000, channels |-> 1, frames |-> 12],
      [rate |-> 8000, channels |-> 1, frames |-> 8] }

\* The arguments of the arm: the defaults, with a pre-roll of 1 ms or of none.
ChunkArgs ==
    [threshold : {ThresholdDefault}, min_speech_ms : {MinSpeechMsDefault},
     silence_ms : {SilenceMsDefault}, pre_roll_ms : {0, 1}]

\* lib.rs 589-667: the thread reads the input configuration and sets up the
\* locals process_chunk captures; the room is silent, or someone speaks.
ChunkArm ==
    /\ k_dev = NoDevice
    /\ \E d \in Devices, par \in ChunkArgs,
          lv \in { [rms |-> 0, peak |-> 0], [rms |-> 5000, peak |-> 8000] } :
          /\ k_dev' = d
          /\ k_par' = par
          /\ k_level' = lv
          /\ k_vad' = VadLocals(par)
    /\ k_seen' = 0
    /\ UNCHANGED <<appVars, envVars, hVars, tVars, cbVars, gVars, vadVars, v_sig, wVars,
                   fVars, sVars, eVars, pVars>>

\* One callback of the stream: process_chunk on the next chunk.
ChunkNext ==
    /\ k_dev # NoDevice
    /\ k_seen * 1000 < MaxAudioMs * k_dev.rate * k_dev.channels
    /\ LET samples == [i \in 1..(k_dev.frames * k_dev.channels) |-> k_seen + i]
       IN /\ k_vad' = ProcessChunkWith(k_vad, k_par, samples, k_level.rms, k_level.peak,
                                       ChunkMsAt(Len(samples), k_dev.rate, k_dev.channels),
                                       PreRollCapacityAt(k_par.pre_roll_ms, k_dev.rate,
                                                         k_dev.channels)).vad
          /\ k_seen' = k_seen + Len(samples)
    /\ UNCHANGED <<appVars, envVars, hVars, tVars, cbVars, gVars, vadVars, v_sig, wVars,
                   fVars, sVars, eVars, pVars, k_dev, k_par, k_level>>

NextChunk == ChunkArm \/ ChunkNext

SpecChunk == Init /\ [][NextChunk]_vars

\* ================================================================ claims

\* The recording-state edges of the specification's state machine.
AllowedEdges ==
    { <<"Idle", "Starting">>, <<"Starting", "Recording">>, <<"Recording", "Paused">>,
      <<"Paused", "Resuming">>, <<"Resuming", "Recording">>, <<"Recording", "Stopping">>,
      <<"Paused", "Stopping">>, <<"Stopping", "Idle">> }

\* A call of transition_state that returned the invalid-transition error and
\* left the state and the emitted events alone.
RejectedInvalid(res) ==
    /\ res = "invalid"
    /\ current_state' = current_state
    /\ n_state_events' = n_state_events

\* C1: every call of transition_state(from, to) made while the current state
\* differs from `from` returns the invalid-transition error, leaves the state
\* unchanged and emits no recording-state-changed event, under every
\* interleaving of the commands and the capture threads.
C1_InvalidTransitionRejected ==
    [][ /\ \A h \in H :
            /\ (PauseTrans(h) /\ current_state # h_read[h]) => RejectedInvalid(last'.res)
            /\ (ResumeTrans1(h) /\ current_state # h_read[h]) => RejectedInvalid(last'.res)
            /\ (ResumeTrans2(h) /\ current_state # Plain("Resuming"))
                   => RejectedInvalid(last'.res)
        /\ \A t \in Thr :
            (ThreadTransition(t) /\ current_state # IdleState) => RejectedInvalid(t_tr'[t])
      ]_vars

\* C1 witness: a pause whose transition found another state than the one it had
\* read has returned the invalid-transition error.
C1_Witness == last = [kind |-> "pause", res |-> "invalid"]

C3_StopReturnsToIdle ==
    [][ \A h \in H :
            (StopWait(h) /\ last'.res = "ok" /\ current_state.type \in {"Recording", "Paused"})
                => current_state'.type = "Idle"
      ]_vars

\* C4: every change of the recording state follows an edge of the state machine.
C4_OnlyAllowedEdges ==
    [][ current_state'.type # current_state.type
            => <<current_state.type, current_state'.type>> \in AllowedEdges ]_vars

\* C5: a pause, resume or stop that returns a state-machine error (an invalid
\* transition, a missing session, no active recording, no completion channel)
\* has changed nothing of the state, the session, the writing flag and the
\* stop/done channels.
C5_ErrorMutatesNothing ==
    [][ \A h \in H :
            (/\ h_pc[h] # "idle"
             /\ h_pc'[h] = "idle"
             /\ last'.kind \in {"pause", "resume", "stop"}
             /\ last'.res \in {"invalid", "no_session", "no_active", "no_channel"})
                => ~(h_mut[h] \/ Shared' # Shared)
      ]_vars

\* C6: a capture callback that begins while the state is Paused emits its level
\* and writes no sample.
C6_NoWriteWhilePaused ==
    \A t \in Thr : cb_start[t] = "Paused" => (cb_level[t] /\ ~cb_wrote[t])

\* C7: a chunk's samples are written to the audio file only while the recording
\* state is Recording and the writing flag is set, for the callbacks of a
\* capture thread and for the chunk processor of the VAD thread alike.
C7_WritesGated ==
    /\ \A t \in Thr : cb_wrote[t] => (cb_we[t] /\ cb_start[t] = "Recording")
    /\ v_wrote => (current_state.type = "Recording" /\ is_writing_enabled)

\* C8: in a recording of one capture thread, the elapsed_ms of a Paused state is
\* the active time up to that pause, and after a resume total_elapsed is the
\* sum of the completed active intervals.
C8_ElapsedIsActiveTime ==
    (\A t \in Thr : t > 1 => t_pc[t] = "free") =>
        /\ current_state.type = "Paused" => current_state.elapsed_ms = g_active
        /\ (current_state.type = "Recording" /\ recording_session.present)
               => recording_session.total_elapsed = g_completed

\* C9: at most one capture thread holds a live writer and an open input stream,
\* and outside a start_recording storing its channels the stored stop sender
\* and completion receiver belong to the same thread.
C9_SingleRecording ==
    /\ Cardinality({t \in Thr : t_writer[t] = "open" /\ t_stream[t]}) <= 1
    /\ (\A h \in H : h_pc[h] \notin {"start_rx", "stop_rx"})
           => (stop_tx # 0 /\ done_rx # 0 => stop_tx = done_rx)

\* C10: a chunk emits vad-segment-start exactly when the time of the run of
\* consecutive detected chunks it extends has reached min_speech_ms and no
\* segment is open; so a shorter run ended by a non-detected chunk emits nothing,
\* a sustained run emits once, and no second start comes before the open segment
\* has ended. above_ms is the time of that run.
C10_SegmentStartOnce ==
    [][ VadChunk =>
            /\ vad'.above_ms = g_run'
            /\ n_seg_start' - n_seg_start \in {0, 1}
            /\ (n_seg_start' = n_seg_start + 1)
                   <=> (g_run' >= v_par.min_speech_ms /\ ~g_open)
      ]_vars

\* C10 witness: a second segment has started after the first one ended, and the
\* run that started it goes on.
C10_Witness ==
    /\ n_seg_start = 2
    /\ g_open
    /\ g_run >= v_par.min_speech_ms
    /\ v_pc = "wait"

\* The samples of the chunk a VadChunk step delivers.
ChunkSamples == [i \in 1..(captured' - captured) |-> captured + i]

\* C11: the chunk that emits vad-segment-start writes the whole pre-roll buffer
\* and then its own samples, and a chunk processed while no segment is open and
\* that starts none writes nothing.
C11_PreRollBeforeLive ==
    [][ VadChunk =>
            /\ (n_seg_start' = n_seg_start + 1 /\ writer_state = "open")
                   => v_written' = v_written \o vad'.prebuf \o ChunkSamples
            /\ (n_seg_start' = n_seg_start /\ ~g_open)
                   => (v_written' = v_written /\ ~v_wrote')
      ]_vars

\* C11 witness: the second chunk started the first segment; the file begins
\* with the pre-roll, the first chunk was not written.
C11_Witness ==
    /\ n_seg_start = 1
    /\ chunks = 2
    /\ v_wrote
    /\ vad.prebuf # <<>>
    /\ Len(v_written) > Len(vad.prebuf)
    /\ Head(v_written) = Head(vad.prebuf)
    /\ Head(v_written) > 1

\* What a chunk does to an open segment, the next segment starting after no
\* less than gap ms of audio since the last one ended: while a segment is open
\* every chunk is written; the segment ends exactly on the first chunk at which
\* the time of the run of consecutive non-detected chunks reaches silence_ms,
\* below_ms being the time of that run; the cooldown is then 500 ms; no chunk
\* is detected while the cooldown is above 0.
SilenceEndsSegment(gap) ==
    /\ (g_open /\ writer_state = "open") => v_written' = v_written \o ChunkSamples
    /\ vad'.is_recording_voice = g_open'
    /\ vad'.below_ms = g_sil'
    /\ (vad.is_recording_voice /\ ~vad'.is_recording_voice)
           => vad'.cooldown_left_ms = CooldownMsDefault
    /\ g_run' > 0 => vad'.cooldown_left_ms = 0
    /\ (n_seg_start' = n_seg_start + 1 /\ g_since >= 0) => g_since' >= gap

\* C12 as stated: a chunk treats an open segment as described above, and the
\* next segment starts after no less than the cooldown plus min_speech_ms of
\* further audio.
C12_SilenceEndsSegment ==
    [][ VadChunk => SilenceEndsSegment(CooldownMsDefault + v_par.min_speech_ms) ]_vars

\* C12 amended: a chunk treats an open segment as described above, and the next
\* segment starts after no less than the cooldown of further audio and a
\* detected run of min_speech_ms, which the chunk that exhausts the cooldown
\* may itself begin.
C12_CooldownThenRun ==
    [][ VadChunk =>
            /\ SilenceEndsSegment(CooldownMsDefault)
            /\ n_seg_start' = n_seg_start + 1 => g_run' >= v_par.min_speech_ms
      ]_vars

\* C12 witness: a second segment has started on less than the cooldown plus
\* min_speech_ms of audio after the first one ended.
C12_Witness ==
    /\ n_seg_start = 2
    /\ g_since >= CooldownMsDefault
    /\ g_since < CooldownMsDefault + v_par.min_speech_ms

C14_FrameCount ==
    (aw.state = "open" /\ w_codec_faults + w_io_faults = 0) =>
        /\ aw.channels >= 1
        /\ w_enc = w_calls \div (SamplesPerFrame * aw.channels)
        /\ Len(aw.buffer) = w_calls % (SamplesPerFrame * aw.channels)
        /\ w_last.op = "write" =>
              w_last.encodes = (IF w_calls % (SamplesPerFrame * aw.channels) = 0
                                THEN 1 ELSE 0)

C14_Witness ==
    /\ aw.state = "open" /\ aw.channels = 1
    /\ w_codec_faults + w_io_faults = 0
    /\ w_calls = 2 * SamplesPerFrame /\ w_enc = 2
    /\ w_last.op = "write" /\ w_last.encodes = 1 /\ aw.buffer = <<>>

\* C15: finalize of the compressed writer encodes the pending buffer if and
\* only if it is non-empty, then invokes the codec flush exactly once as the
\* last encoder operation, then flushes the file; with an empty pending buffer
\* no encode is invoked and no frame bytes are written, and no encode follows
\* the codec flush.
C15_FinalizeOrder ==
    [][ /\ Finalize =>
              /\ w_enc' - w_enc = (IF aw.buffer # <<>> THEN 1 ELSE 0)
              /\ w_last'.encodes = w_enc' - w_enc
              /\ w_last'.codec_flush = 1
              /\ w_last'.flush_after_encode
              /\ w_last'.file_flush
              /\ aw.buffer = <<>> => w_frames' = w_frames
        /\ aw.state = "gone" => w_enc' = w_enc ]_vars

\* The buffer an encode of this step was given: write_sample encodes after its
\* push, finalize encodes what was pending.
Pending == IF w_calls' # w_calls THEN Append(aw.buffer, w_calls') ELSE aw.buffer

\* C16: every encode the writer invokes, from write_sample or from finalize,
\* for every channel count >= 1 and every pending length, passes left and right
\* buffers of equal length: for one channel both are the pending buffer;
\* otherwise the buffer is split pairwise, and an odd trailing sample goes to
\* left with 0 appended to right.
C16_EqualLength ==
    [][ w_enc' # w_enc =>
          /\ Len(w_left') = Len(w_right')
          /\ aw.channels = 1 => (w_left' = Pending /\ w_right' = Pending)
          /\ aw.channels > 1 =>
                /\ Len(w_left') = (Len(Pending) + 1) \div 2
                /\ \A i \in 1..Len(w_left') :
                      /\ w_left'[i] = Pending[2 * i - 1]
                      /\ w_right'[i] = (IF 2 * i <= Len(Pending) THEN Pending[2 * i] ELSE 0) ]_vars

C16_Witness ==
    /\ w_last.op = "finalize" /\ w_last.encodes = 1 /\ aw.channels = 2
    /\ w_calls = 3 /\ w_left = <<1, 3>> /\ w_right = <<2, 0>>

\* C17: when an encode fails, write_sample still returns Ok, the failed frame's
\* samples are discarded (the pending buffer is cleared) and no bytes are
\* written for it; the samples that follow are buffered and encoded as later
\* frames, the recording goes on.
C17_CodecErrorSkipsFrame ==
    [][ /\ (w_calls' # w_calls /\ w_last'.outcome = "codec_err") =>
              /\ w_last'.ret = "ok"
              /\ aw'.buffer = <<>>
              /\ w_frames' = w_frames
              /\ aw'.state = "open"
        /\ (w_calls' # w_calls /\ w_codec_faults > 0 /\ w_io_faults' = 0) =>
              /\ w_last'.ret = "ok"
              /\ aw'.state = "open"
              /\ Len(aw'.buffer) = w_calls' % (SamplesPerFrame * aw.channels)
              /\ w_enc' = w_calls' \div (SamplesPerFrame * aw.channels)
              /\ w_enc' # w_enc => w_left'[1] = w_calls' - SamplesPerFrame * aw.channels + 1 ]_vars

C17_Witness ==
    /\ aw.state = "open" /\ aw.channels = 1
    /\ w_codec_faults = 1 /\ w_io_faults = 0
    /\ w_calls = 2 * SamplesPerFrame /\ w_enc = 2 /\ w_frames = 1
    /\ w_last.op = "write" /\ w_last.outcome = "bytes" /\ w_last.ret = "ok"
    /\ w_left[1] = SamplesPerFrame + 1

C19_BestEffort ==
    [][ (Finalize /\ (w_last'.outcome \in {"io_err", "codec_err"}
                       \/ w_last'.flush_outcome = "codec_err")) =>
          (w_last'.codec_flush = 1 /\ w_last'.file_flush) ]_vars

\* The chunks sent and the chunks queued, in this order, are some of the chunks
\* captured, each once and in capture order.
InCaptureOrder(q) ==
    /\ \A i \in 1..Len(q) : q[i] \in 1..sx_offered
    /\ \A i \in 1..(Len(q) - 1) : q[i] < q[i + 1]

\* C20: the capture side never blocks on the audio-to-transcription channel:
\* a callback's offer is always possible and leaves at once; when the channel
\* holds its bound of 32 chunks the new chunk is dropped without error; the
\* accepted chunks are received by the session loop in capture order, so what
\* is sent to the service is an order-preserving subsequence of the captured
\* chunks.
C20_DropOnFull ==
    [][ /\ sx_offered < MaxOffered => ENABLED SonioxOffer
        /\ Len(sx_chan') <= AudioChannelBound
        /\ InCaptureOrder(sx_sent \o sx_chan)'
        /\ SonioxOffer =>
              /\ (soniox_tx /\ Len(sx_chan) = AudioChannelBound) =>
                    (sx_chan' = sx_chan /\ sx_last' = "dropped")
              /\ (soniox_tx /\ sx_loop = "running" /\ Len(sx_chan) < AudioChannelBound) =>
                    (sx_chan' = Append(sx_chan, sx_offered') /\ sx_last' = "accepted")
        /\ SessionAudio => (sx_sent' = sx_sent \/ sx_sent' = Append(sx_sent, Head(sx_chan))) ]_vars

\* Chunk 33 met a full channel and was dropped; after one frame was sent chunk
\* 34 was accepted behind chunk 32.
C20_Witness ==
    /\ soniox_tx /\ sx_loop = "running"
    /\ sx_offered = AudioChannelBound + 2 /\ sx_last = "accepted"
    /\ sx_sent = <<1>> /\ Len(sx_chan) = AudioChannelBound
    /\ sx_chan[AudioChannelBound] = AudioChannelBound + 2
    /\ sx_chan[AudioChannelBound - 1] = AudioChannelBound

\* The stored sender was dropped while the session loop is running; the channel
\* takes no further chunk.
ProducerClosed == ~soniox_tx /\ sx_loop = "running"

\* C21: when the producer side of the audio channel is closed while the session
\* loop is running, the loop sends every chunk still queued as a binary frame,
\* then exactly one empty text frame, then exits: it never exits with a queued
\* chunk unsent or without the empty text frame.
C21_DrainThenEndOfAudio ==
    [][ (ProducerClosed /\ sx_loop' = "ended") => (sx_chan = <<>> /\ sx_eoa' = 1) ]_vars

\* C21 as amended: a loop that reaches the closed, empty channel has sent every
\* chunk that was queued, sends one empty text frame and exits; a send failure
\* or the service may end the loop before that; a session sends at most one
\* empty text frame, and no binary frame after it.
C21_EndOfAudioLast ==
    [][ /\ SessionClosed =>
              (ProducerClosed /\ sx_chan = <<>> /\ sx_sent' = sx_sent /\ sx_eoa' = 1
                 /\ sx_loop' = "ended")
        /\ sx_eoa' <= 1
        /\ sx_eoa' > sx_eoa => SessionClosed
        /\ (sx_eoa = 1 /\ sx_eoa' = 1) => (sx_sent' = sx_sent /\ sx_loop' = "ended") ]_vars

\* The sender was dropped after three chunks were accepted; the loop sent the
\* three frames, then the empty text frame, and ended.
C21_Witness ==
    /\ ~soniox_tx /\ sx_loop = "ended" /\ sx_eoa = 1 /\ sx_last = "stopped"
    /\ sx_sent = <<1, 2, 3>> /\ sx_offered = 3

\* What ends the loop: the audio channel closed, a failed send, a close
\* message, a read error, the end of the stream, an error code, the finished
\* flag.
ExitCause(item) ==
    \/ item.kind \in {"channel_closed", "send_failed", "close", "read_error", "end"}
    \/ item.kind = "text" /\ item.parsed /\ (item.error_code \/ item.finished)

\* C22: a session in its loop leaves it only by one of the stated causes; the
\* step that leaves it emits the status event "ended" as its last event, the
\* only "ended" of the session, whatever the cause; an ended session takes no
\* further step (no event, no frame, no reconnect).
C22_EndedOnceLast ==
    [][ /\ se_loop # "ended"
        /\ se_loop' = "running" => n_ended' = 0
        /\ (se_loop = "running" /\ se_loop' = "ended") =>
              /\ ExitCause(se_in')
              /\ n_ended' = 1
              /\ se_events'[Len(se_events')] = Status("ended")
              /\ \A i \in 1..(Len(se_events') - 1) : se_events'[i] # Status("ended") ]_vars

C22_Witness ==
    /\ se_loop = "ended" /\ se_in.kind = "read_error" /\ n_msgs = MaxMsgs /\ n_ended = 1
    /\ se_events = <<ErrorEvent("read"), Status("ended")>>

\* The three failures of a running session: an error code in a message, a
\* failed audio send, a read error.
ErrorCause(item) ==
    \/ item.kind \in {"send_failed", "read_error"}
    \/ item.kind = "text" /\ item.parsed /\ item.error_code

\* C23: a message with an error code, a failed audio send and a read error
\* each end the loop and emit exactly one error event; a session emits at most
\* one error event, and no transcript event after it.
C23_OneErrorThenEnd ==
    [][ /\ n_errors' <= 1
        /\ (se_loop = "running" /\ ErrorCause(se_in')) =>
              /\ se_loop' = "ended"
              /\ n_errors' = n_errors + 1
              /\ se_events'[1].kind = "error"
              /\ \A i \in 2..Len(se_events') : se_events'[i].kind \notin {"error", "transcript"}
        /\ n_errors = 1 => \A i \in 1..Len(se_events') : se_events'[i].kind # "transcript" ]_vars

C23_Witness ==
    /\ se_loop = "ended" /\ se_in.kind = "text" /\ se_in.error_code /\ n_errors = 1
    /\ n_msgs = 2 /\ last_emitted_text # <<>>
    /\ se_events = <<ErrorEvent("error_code"), Status("ended")>>

\* C24: every message whose finished flag is true ends the loop on that very
\* message, whatever its tokens and whether or not a suppression is armed.
C24_FinishedEnds ==
    [][ (se_loop = "running" /\ se_in'.kind = "text" /\ se_in'.parsed /\ se_in'.finished)
            => se_loop' = "ended" ]_vars

RECURSIVE Flatten(_)
Flatten(lists) == IF lists = <<>> THEN <<>> ELSE Head(lists) \o Flatten(Tail(lists))

\* C25: with no clear so far, the text rendered for a message is
\* render_tokens(F, N), F being every non-empty final token received so far in
\* arrival order and N the non-empty non-final tokens of this message only;
\* the accumulation is exactly F.
C25_RenderedFromHistory ==
    [][ (se_loop = "running" /\ ~se_cleared' /\ se_in'.kind = "text" /\ se_in'.parsed
           /\ ~se_in'.error_code) =>
          LET F == SelectSeq(Flatten(se_inbox'), IsFinal)
              N == SelectSeq(se_in'.tokens, IsNonFinal)
              text == RenderTokens(F, N)
          IN /\ final_tokens' = F
             /\ se_events' # <<>> /\ se_events'[1].kind = "transcript"
             /\ se_events'[1].text \in {text, Placeholder}
             /\ text # <<>> => se_events'[1].text = text ]_vars

C25_Witness ==
    /\ ~se_cleared /\ n_msgs = 3 /\ se_loop = "running"
    /\ Len(se_inbox) = 3 /\ Len(se_inbox[2]) = 2 /\ Len(final_tokens) = 2
    /\ se_in.kind = "text" /\ Len(se_in.tokens) = 1 /\ ~se_in.tokens[1].is_final
    /\ se_events = <<Transcript(<<"Speaker 2:", " [", "en", "] ", "A", ".", "\n",
                                  "Speaker 1:", " [", "en", "] ", "B", "c", ".", "\n",
                                  Separator>>)>>

IsTranscript(e) == e.kind = "transcript"

\* A parsed message without error code was handled by a loop in state
\* "running": unless the suppression withheld the rendering it yields one
\* transcript event, the rendering when the message has a token of non-empty
\* text (or, if content counts, when the rendering is not empty), else the
\* placeholder.
TranscriptPerMessage(content_counts) ==
    (se_loop = "running" /\ se_in'.kind = "text" /\ se_in'.parsed /\ ~se_in'.error_code) =>
       LET has  == \E i \in 1..Len(se_in'.tokens) : se_in'.tokens[i].text # <<>>
           text == RenderTokens(final_tokens', SelectSeq(se_in'.tokens, IsNonFinal))
           sent == SelectSeq(se_events', IsTranscript)
       IN \/ suppress_repeat.some /\ suppress_repeat.text = text /\ sent = <<>>
          \/ sent = <<IF has \/ (content_counts /\ text # <<>>) THEN Transcript(text)
                      ELSE Transcript(Placeholder)>>

\* C26 as stated: every parsed message without error code yields one
\* transcript event unless withheld: the rendering when the message has a
\* token of non-empty text, the placeholder in every other case.
C26_PlaceholderWithoutTokens == [][TranscriptPerMessage(FALSE)]_vars

\* C26: every parsed message without error code yields one transcript event
\* unless withheld: the rendering when the message has a token of non-empty
\* text or the rendering (of what was accumulated) is not empty, the
\* placeholder only when neither holds.
C26_PlaceholderWithoutContent == [][TranscriptPerMessage(TRUE)]_vars

C26_Witness ==
    /\ se_loop = "running" /\ se_in.kind = "text" /\ se_in.parsed /\ se_in.tokens = <<>>
    /\ final_tokens # <<>> /\ ~suppress_repeat.some
    /\ last_emitted_text \notin {<<>>, Placeholder}
    /\ se_events = <<Transcript(last_emitted_text)>>

\* C27: a clear-transcript command leaves the accumulation and the last
\* emitted text empty, keeps the loop running, sends no frame and emits no
\* event; every transcript emitted after it is the placeholder or rendered
\* from the tokens received since the clear alone.
C27_ClearForgets ==
    [][ /\ (se_loop = "running" /\ se_in'.kind = "clear") =>
              /\ final_tokens' = <<>> /\ last_emitted_text' = <<>>
              /\ se_loop' = "running" /\ se_frames' = <<>> /\ se_events' = <<>>
        /\ (se_loop = "running" /\ se_cleared' /\ se_in'.kind = "text") =>
              LET F == SelectSeq(Flatten(se_inbox'), IsFinal)
                  N == SelectSeq(se_in'.tokens, IsNonFinal)
              IN /\ final_tokens' = F
                 /\ \A i \in 1..Len(se_events') :
                       se_events'[i].kind = "transcript" =>
                          se_events'[i].text \in {RenderTokens(F, N), Placeholder} ]_vars

C27_Witness ==
    /\ se_loop = "running" /\ se_in.kind = "text" /\ se_cleared /\ n_msgs = 2
    /\ Len(se_inbox) = 1 /\ n_events = 5 /\ n_audio = 0
    /\ ~suppress_repeat.some
    /\ final_tokens = <<Tok(<<Space, "b">>, TRUE, TRUE, 1)>>
    /\ se_events = <<Transcript(<<"Speaker 1:", " [", "en", "] ", "B", "c", ".", "\n",
                                  Separator>>)>>

\* C28: the suppression armed by a clear is one-shot: a rendering is withheld
\* only if it is the first rendering made since the clear; every later one is
\* emitted.
C28_OneShot == [][ se_held' > se_held => se_rendered = 0 ]_vars

\* A token render_tokens takes text from: its cleaned text is not blank.
Contributes(tok) == Trim(Clean(tok.text)) # <<>>

\* The speaker of a token: its own, else the speaker of the last contributing
\* final token, else 0.
SpeakerOf(tok, finals) ==
    LET cf == SelectSeq(finals, Contributes)
    IN IF tok.spk THEN tok.speaker
       ELSE IF tok.is_final \/ cf = <<>> THEN 0
       ELSE IF cf[Len(cf)].spk THEN cf[Len(cf)].speaker ELSE 0

\* The elements of q in the order of their first appearance.
RECURSIVE FirstAppearance(_)
FirstAppearance(q) ==
    IF q = <<>> THEN <<>>
    ELSE LET init == FirstAppearance(SubSeq(q, 1, Len(q) - 1))
         IN IF InSeq(q[Len(q)], init) THEN init ELSE Append(init, q[Len(q)])

\* The cleaned text of the contributing tokens of toks that belong to speaker sp.
RECURSIVE TextOf(_, _, _)
TextOf(sp, toks, finals) ==
    IF toks = <<>> THEN <<>>
    ELSE (IF Contributes(Head(toks)) /\ SpeakerOf(Head(toks), finals) = sp
          THEN Clean(Head(toks).text) ELSE <<>>)
         \o TextOf(sp, Tail(toks), finals)

\* One line per speaker, in first-appearance order over the final and then the
\* non-final tokens; a line is the speaker's final text followed by the
\* speaker's non-final text.
ExpectedLines(finals, non_finals) ==
    LET toks  == SelectSeq(finals, Contributes) \o SelectSeq(non_finals, Contributes)
        order == FirstAppearance([i \in 1..Len(toks) |-> SpeakerOf(toks[i], finals)])
        HasFinal(sp) == \E i \in 1..Len(finals) :
                           Contributes(finals[i]) /\ SpeakerOf(finals[i], finals) = sp
    IN [i \in 1..Len(order) |->
          [speaker |-> order[i],
           lang    |-> IF HasFinal(order[i]) THEN "en" ELSE "?",
           text    |-> FormatTranscriptLine(TextOf(order[i], finals, finals)
                                              \o TextOf(order[i], non_finals, finals))]]

\* C29: the output of render_tokens has one line per speaker, the speakers in
\* the order of their first appearance among the final tokens and then among
\* the non-final tokens (not in numeric order), each line the speaker's
\* concatenated final text immediately followed by the speaker's non-final text.
C29_FirstAppearanceOrder ==
    p_op = "render_tokens" => p_out = JoinLines(ExpectedLines(p_in.finals, p_in.non_finals))

C29_Witness ==
    /\ p_op = "render_tokens"
    /\ p_in.finals = <<Tok(<<"a">>, TRUE, TRUE, 2), Tok(<<Space, "b">>, TRUE, TRUE, 1)>>
    /\ p_in.non_finals = <<Tok(<<"c">>, FALSE, FALSE, 0), Tok(<<"a">>, FALSE, TRUE, 2)>>
    /\ p_out = <<"Speaker 2:", " [", "en", "] ", "A", "a", ".", "\n",
                 "Speaker 1:", " [", "en", "] ", "B", "c", ".", "\n", Separator>>

\* i16::from_le_bytes.
FromLeBytes(lo, hi) ==
    IF lo + 256 * hi >= 32768 THEN lo + 256 * hi - 65536 ELSE lo + 256 * hi

\* The bytes read back as 16-bit little-endian samples.
Decoded(bytes) ==
    [k \in 1..(Len(bytes) \div 2) |-> FromLeBytes(bytes[2 * k - 1], bytes[2 * k])]

\* C30: at 16 kHz, on a chunk of whole frames, the output is 2 bytes per
\* frame, the little-endian 16-bit encoding of the downmix: for one channel it
\* decodes to the input samples, for c > 1 channels each decoded sample is the
\* quotient, truncated toward zero, of the sum of one interleaved frame by c.
C30_DownmixLittleEndian ==
    (p_op = "to_pcm16_mono_16k" /\ Len(p_in.samples) % p_in.channels = 0) =>
       LET c == p_in.channels
           q == p_in.samples
           d == Decoded(p_out)
       IN /\ Len(p_out) = 2 * (Len(q) \div c)
          /\ \A i \in 1..Len(p_out) : p_out[i] \in 0..255
          /\ c = 1 => d = q
          /\ c > 1 => \A k \in 1..Len(d) :
                         LET sum == Sum(SubSeq(q, (k - 1) * c + 1, k * c))
                         IN IF sum >= 0 THEN d[k] * c <= sum /\ sum < d[k] * c + c
                            ELSE d[k] * c - c < sum /\ sum <= d[k] * c

C30_Witness ==
    /\ p_op = "to_pcm16_mono_16k" /\ p_in.channels = 2
    /\ p_in.samples = <<-1, -32768, 1000, 3000>>
    /\ p_out = <<0, 192, 208, 7>>
    /\ Decoded(p_out) = <<-16384, 2000>>

\* The least integer not below a / b.
CeilDiv(a, b) == (a + b - 1) \div b

\* C31 as stated: n mono samples at a rate r other than 16000 give
\* ceil(n * 16000 / r) output samples of 2 bytes each; from 8 kHz at least
\* 2 * n samples; the first output sample is the first input sample.
C31_ExactCeiling ==
    p_op = "resample" =>
       /\ p_out.len = 2 * CeilDiv(p_in.n * OutRate, p_in.sample_rate)
       /\ p_in.sample_rate = 8000 => p_out.len >= 2 * (2 * p_in.n)
       /\ p_in.n > 0 => p_out.first = ToLeBytes(p_in.first)

\* C31: the number of output samples, 2 bytes each, is the ceiling of a
\* single-precision product and so within one of ceil(n * 16000 / r); from
\* 8 kHz it is exactly 2 * n; a non-empty input gives a non-empty output whose
\* first sample is the first input sample.
C31_CeilingWithinOne ==
    p_op = "resample" =>
       LET exact == 2 * CeilDiv(p_in.n * OutRate, p_in.sample_rate)
       IN /\ p_out.len \in {exact - 2, exact, exact + 2}
          /\ p_in.sample_rate = 8000 => p_out.len = 2 * (2 * p_in.n)
          /\ p_in.n > 0 => (p_out.len >= 2 /\ p_out.first = ToLeBytes(p_in.first))
          /\ p_in.n = 0 => (p_out.len = 0 /\ p_out.first = <<>>)

C31_Witness ==
    /\ p_op = "resample" /\ p_in.n = 1323 /\ p_in.sample_rate = 44100
    /\ p_in.first = -32768 /\ p_out = [len |-> 962, first |-> <<0, 128>>]

\* C32: once chunks totalling 1000 ms of audio time have been processed, the
\* calibration window has closed and the threshold has been derived, whatever
\* the chunk size and the sample rate.
C32_CalibrationCloses ==
    (k_dev # NoDevice /\ k_seen * 1000 >= CalibMs * k_dev.rate * k_dev.channels) =>
       (k_vad.calib_left_ms = 0 /\ k_vad.noise_time_accum_ms > 0)

\* C33: after every chunk the pre-roll buffer holds exactly the most recent
\* min(samples seen, capacity) samples in capture order, capacity being
\* (pre_roll_ms * sample_rate / 1000) * channels; with pre_roll_ms = 0 it is empty.
C33_PreRollWindow ==
    k_dev # NoDevice =>
       LET capacity == ((k_par.pre_roll_ms * k_dev.rate) \div 1000) * k_dev.channels
           held     == IF k_seen < capacity THEN k_seen ELSE capacity
       IN k_vad.prebuf = [i \in 1..held |-> k_seen - held + i]

\* C34: within one session the samples written to the file are a subsequence of
\* the captured stream: they appear in capture order and no sample is written
\* twice, neither as pre-roll tail and live chunk nor across segments.
C34_NoSampleTwice ==
    \A i \in 1..Len(v_written) :
       /\ v_written[i] \in 1..captured
       /\ i > 1 => v_written[i - 1] < v_written[i]

\* C35: whenever no command handler is in the middle of its execution (the
\* setup a start_recording leaves to its capture thread included), the writing
\* flag is set exactly when the recording state is Recording.
C35_WritingIffRecording ==
    ((\A h \in H : h_pc[h] = "idle") /\ (\A t \in Thr : t_pc[t] \in {"free", "wait", "exit"})) =>
       (is_writing_enabled <=> current_state.type = "Recording")

\* C36: when the only capture thread a start_recording spawned has failed during
\* its setup (no device, no encoder or file, no stream), the recording state is
\* Idle, so that a later start_recording is accepted.
C36_SetupFailureLeavesIdle ==
    \A t \in Thr :
       (/\ t_pc[t] = "exit" /\ t_done[t] = "err" /\ t_writer[t] \in {"none", "dropped"}
        /\ \A u \in Thr \ {t} : t_pc[u] = "free")
          => current_state.type = "Idle"

\* C37: the stored audio sender is present only while a session task is running,
\* so that after a session ended on its own a start_soniox_session is not
\* refused as "already running".
C37_SenderOnlyWhileRunning ==
    /\ soniox_tx => sx_loop = "running"
    /\ sx_last = "already_running" => sx_loop = "running"

\* C38: manual and automatic capture exclude each other: an arm issued while a
\* capture thread of start_recording is alive is rejected, a start_recording
\* issued while the automatic path is armed is rejected and leaves the stored
\* stop sender alone, and the two input streams are never open together.
C38_ModesExclusive ==
    [][ /\ (ArmAutoRecording(1) /\ \E t \in Thr : t_pc[t] \notin {"free", "exit"})
              => (last'.res = "rejected" /\ stop_tx' = stop_tx)
        /\ (StartCheck(1) /\ stop_tx = VadChan)
              => (last' = [kind |-> "start", res |-> "rejected"] /\ h_pc'[1] = "idle")
        /\ ~(v_pc' = "wait" /\ \E t \in Thr : t_stream'[t])
      ]_vars

\* C39: when the VAD thread reaches the creation of the writer the session path
\* is present, whatever the commands issued meanwhile: the thread never panics
\* on an absent path while it holds the writer's lock.
C39_PathPresentAtWriter ==
    /\ (v_pc = "writer" /\ writer_state = "none") => vad_session_path
    /\ writer_state # "poisoned"

\* C40: a stop_recording that waits on a completion channel always returns: the
\* capture thread it waits for has replied, or has been signalled (or has lost
\* its stop sender) and will reply, or has not yet reached its wait; the
\* handler is never left waiting for a thread that itself waits for a stop.
C40_StopAlwaysReturns ==
    \A h \in H :
       h_pc[h] = "stop_wait" =>
          ~(/\ t_done[h_rxl[h]] = "none"
            /\ t_pc[h_rxl[h]] = "wait"
            /\ t_sig[h_rxl[h]] = "none")

====
